---- MODULE Spec2Model ----
(***************************************************************************)
(* Golf-cart fleet core: the GolfCart aggregate (status state machine,     *)
(* battery, events), the repository save / transaction scopes, and the     *)
(* Redis-stream event bus with its consumer-group dispatcher.              *)
(*                                                                         *)
(* Units: battery level and velocity are kept in tenths (the value objects *)
(* round to one decimal), time is kept in minutes.                         *)
(***************************************************************************)
EXTENDS Integers, Sequences, FiniteSets, TLC

VARIABLES
    cart,       \* the in-memory GolfCart aggregate (its private fields)
    op,         \* the last operation called on the aggregate / repository
    args,       \* the arguments of that call
    res,        \* how that call ended: [exc, msg]
    now,        \* the clock (datetime.utcnow()), minutes
    ticks,      \* number of clock advances so far
    calls,      \* number of aggregate operations called so far
    db,         \* committed rows of the golf_carts table, by cart id
    session,    \* the open storage session: its flushed, uncommitted rows
    scope,      \* the transaction scope in progress (UnitOfWork or get_db)
    stream,     \* the Redis stream "domain_events": sequence of messages
    txs,        \* outcome of every transaction scope so far
    lastSave,   \* bookkeeping of the last repository save
    found,      \* result of the last get_by_id
    group,      \* the consumer group: last-delivered id, pending entries, acks
    disp,       \* the dispatcher task: running / reading position
    runs,       \* every _handle_message run: message id, handlers started, raised
    errlog,     \* the errors the dispatcher and the handlers printed: [id, kind]
    crashes,    \* number of dispatcher stops and lost replies so far
    event_logs, \* the event_logs table: the event id of every row, in insertion order
    loop        \* the asyncio event loop of the dispatcher: handler tasks, ready queue

cartVars  == <<cart, op, args, res, now, ticks, calls>>
storeVars == <<db, session, scope, stream, txs, lastSave, found>>
busVars   == <<group, disp, runs, errlog, crashes, event_logs, loop>>
vars      == <<cart, op, args, res, now, ticks, calls, db, session, scope, stream,
               txs, lastSave, found, group, disp, runs, errlog, crashes, event_logs,
               loop>>

---------------------------------------------------------------------------
(* Bounds of the model *)

MaxTicks == 1
MaxPending == 1
MaxCalls == 3
MaxScopes == 2
MaxStream == 3
MaxSaves == 2
MaxCrashes == 1
MaxMessages == 2

---------------------------------------------------------------------------
(* Optional values: None is the empty tuple, Some(x) a one-element tuple *)

None == <<>>
Some(x) == <<x>>
MinutesPerDay == 24 * 60

---------------------------------------------------------------------------
(* CartStatus, app/domain/shared/cart_status.py *)

RUNNING == "running"
IDLE == "idle"
CHARGING == "charging"
FIXING == "fixing"
OUT_OF_SERVICE == "out_of_service"
CartStatus == {RUNNING, IDLE, CHARGING, FIXING, OUT_OF_SERVICE}

Status_can_start_trip(s) == s \in {IDLE, CHARGING}

---------------------------------------------------------------------------
(* Battery, app/domain/fleet/value_objects/battery.py (tenths of a percent) *)

LOW_THRESHOLD == 200
CRITICAL_THRESHOLD == 100

Battery_valid(level) == 0 <= level /\ level <= 1000

Battery_is_low(level) == level < LOW_THRESHOLD

Battery_is_critical(level) == level < CRITICAL_THRESHOLD

Battery_can_start_trip_strict(level) == level > LOW_THRESHOLD

Battery_can_start_trip(level) == level >= LOW_THRESHOLD

\* round(n/d) to the nearest integer, ties to even (Python's round), d > 0
RoundHalfEven(n, d) ==
    LET q == n \div d
        r == n % d
    IN  IF 2 * r < d THEN q
        ELSE IF 2 * r > d THEN q + 1
        ELSE IF q % 2 = 0 THEN q ELSE q + 1

---------------------------------------------------------------------------
(* Velocity and Position value objects *)

MAX_SPEED == 300

Velocity_valid(speed) == speed >= 0 /\ speed <= MAX_SPEED

Velocity_is_moving(speed) == speed > 0

Velocity_is_stopped(speed) == speed = 0

Position_valid(p) == -90 <= p[1] /\ p[1] <= 90 /\ -180 <= p[2] /\ p[2] <= 180

---------------------------------------------------------------------------
(* CartNumber, app/domain/fleet/value_objects/cart_number.py: a string is the
   sequence of its characters *)

LowerLetters ==
    <<"a", "b", "c", "d", "e", "f", "g", "h", "i", "j", "k", "l", "m",
      "n", "o", "p", "q", "r", "s", "t", "u", "v", "w", "x", "y", "z">>
UpperLetters ==
    <<"A", "B", "C", "D", "E", "F", "G", "H", "I", "J", "K", "L", "M",
      "N", "O", "P", "Q", "R", "S", "T", "U", "V", "W", "X", "Y", "Z">>
Digits == {"0", "1", "2", "3", "4", "5", "6", "7", "8", "9"}

\* str.upper, one character
upper_char(ch) ==
    IF \E i \in 1..26 : LowerLetters[i] = ch
    THEN UpperLetters[CHOOSE i \in 1..26 : LowerLetters[i] = ch]
    ELSE ch

upper(value) == [i \in 1..Len(value) |-> upper_char(value[i])]

\* str.strip: leading and trailing blanks removed
strip(value) ==
    LET inked == {i \in 1..Len(value) : value[i] # " "}
    IN  IF inked = {} THEN <<>>
        ELSE SubSeq(value, CHOOSE i \in inked : \A j \in inked : i <= j,
                           CHOOSE i \in inked : \A j \in inked : j <= i)

\* PATTERN = ^[A-Z0-9]{2,20}$
PATTERN_match(value) ==
    /\ Len(value) >= 2 /\ Len(value) <= 20
    /\ \A i \in 1..Len(value) :
          value[i] \in Digits \/ \E k \in 1..26 : UpperLetters[k] = value[i]

\* CartNumber.__init__ keeping the letter case it is given
CartNumber_as_given(value) ==
    IF value = <<>> \/ strip(value) = <<>>
    THEN [exc |-> "InvalidValueException", msg |-> "Cart number cannot be empty.", value |-> <<>>]
    ELSE [exc |-> "none", msg |-> "", value |-> strip(value)]

\* CartNumber.__init__
CartNumber(value) ==
    IF value = <<>> \/ strip(value) = <<>>
    THEN [exc |-> "InvalidValueException", msg |-> "Cart number cannot be empty.", value |-> <<>>]
    ELSE LET normalized == strip(upper(value))
         IN  IF ~PATTERN_match(normalized)
             THEN [exc |-> "InvalidValueException", msg |-> "Invalid cart number", value |-> <<>>]
             ELSE [exc |-> "none", msg |-> "", value |-> normalized]

CART001 == <<"C", "A", "R", "T", "0", "0", "1">>

---------------------------------------------------------------------------
(* Domain events, app/domain/fleet/events/cart_events.py *)

CartRegistered(n) == [name |-> "CartRegistered", payload |-> [cart_number |-> n]]
CartStarted(p) == [name |-> "CartStarted", payload |-> [position |-> p]]
CartStopped(p, d) == [name |-> "CartStopped", payload |-> [position |-> p, trip_duration_seconds |-> d]]
PositionUpdated(o, n, v) ==
    [name |-> "PositionUpdated", payload |-> [old_position |-> o, new_position |-> n, velocity |-> v]]
BatteryLow(l) == [name |-> "BatteryLow", payload |-> [battery_level |-> l]]
BatteryCritical(l) == [name |-> "BatteryCritical", payload |-> [battery_level |-> l]]
CartStatusChanged(o, n) == [name |-> "CartStatusChanged", payload |-> [old_status |-> o, new_status |-> n]]
MaintenanceRequired == [name |-> "MaintenanceRequired", payload |-> [reason |-> "Scheduled maintenance"]]

---------------------------------------------------------------------------
(* Results of a call: the aggregate afterwards and the exception raised *)

NoExc == [exc |-> "none", msg |-> ""]
Ok(c) == [cart |-> c, exc |-> "none", msg |-> ""]
Raise(c, e, m) == [cart |-> c, exc |-> e, msg |-> m]
BRV == "BusinessRuleViolation"
IVE == "InvalidValueException"

---------------------------------------------------------------------------
(* Entity, app/domain/shared/base_entity.py *)

raise_event(c, e) == [c EXCEPT !.events = Append(@, e)]

---------------------------------------------------------------------------
(* GolfCart, app/domain/fleet/entities/golf_cart.py *)

BATTERY_CONSUMPTION_RATE == 10
MAX_IDLE_TIME_MINUTES == 30
MAINTENANCE_INTERVAL_DAYS == 30

\* GolfCart.__init__: has_id is whether entity_id was supplied
GolfCart(cart_number, has_id, position, battery, status, last_maintenance) ==
    [cart_number |-> cart_number,
     position |-> position,
     battery |-> battery,
     velocity |-> 0,
     status |-> status,
     last_maintenance |-> last_maintenance,
     trip_started_at |-> None,
     last_position_update |-> None,
     events |-> IF has_id THEN <<>> ELSE <<CartRegistered(cart_number)>>]

change_status(c, new_status) ==
    IF c.status # new_status
    THEN raise_event([c EXCEPT !.status = new_status],
                     CartStatusChanged(c.status, new_status))
    ELSE c

needs_maintenance(c, t) ==
    IF c.last_maintenance = None THEN TRUE
    ELSE ((t - c.last_maintenance[1]) \div MinutesPerDay) >= MAINTENANCE_INTERVAL_DAYS

\* start_trip without the maintenance guard
start_trip_unmaintained(c, t) ==
    IF ~Status_can_start_trip(c.status)
    THEN Raise(c, BRV, "Cart must be IDLE or CHARGING")
    ELSE IF ~Battery_can_start_trip(c.battery)
    THEN Raise(c, BRV, "Insufficient battery")
    ELSE LET c1 == change_status(c, RUNNING)
             c2 == [c1 EXCEPT !.trip_started_at = Some(t)]
             c3 == raise_event(c2, CartStarted(c2.position))
         IN  Ok(c3)

start_trip_started_first(c, t) ==
    IF ~Status_can_start_trip(c.status)
    THEN Raise(c, BRV, "Cart must be IDLE or CHARGING")
    ELSE IF ~Battery_can_start_trip(c.battery)
    THEN Raise(c, BRV, "Insufficient battery")
    ELSE IF needs_maintenance(c, t)
    THEN Raise(c, BRV, "Cart requires maintenance")
    ELSE LET c1 == raise_event(c, CartStarted(c.position))
             c2 == change_status(c1, RUNNING)
             c3 == [c2 EXCEPT !.trip_started_at = Some(t)]
         IN  Ok(c3)

start_trip(c, t) ==
    IF ~Status_can_start_trip(c.status)
    THEN Raise(c, BRV, "Cart must be IDLE or CHARGING")
    ELSE IF ~Battery_can_start_trip(c.battery)
    THEN Raise(c, BRV, "Insufficient battery")
    ELSE IF needs_maintenance(c, t)
    THEN Raise(c, BRV, "Cart requires maintenance")
    ELSE LET c1 == change_status(c, RUNNING)
             c2 == [c1 EXCEPT !.trip_started_at = Some(t)]
             c3 == raise_event(c2, CartStarted(c2.position))
         IN  Ok(c3)

stop_trip_keeps_velocity(c, t) ==
    IF c.status # RUNNING
    THEN Raise(c, BRV, "Cart is not running")
    ELSE LET trip_duration == IF c.trip_started_at # None
                              THEN Some((t - c.trip_started_at[1]) * 60)
                              ELSE None
             c1 == change_status(c, IDLE)
             c2 == [c1 EXCEPT !.trip_started_at = None]
             c3 == raise_event(c2, CartStopped(c2.position, trip_duration))
         IN  Ok(c3)

stop_trip(c, t) ==
    IF c.status # RUNNING
    THEN Raise(c, BRV, "Cart is not running")
    ELSE LET trip_duration == IF c.trip_started_at # None
                              THEN Some((t - c.trip_started_at[1]) * 60)
                              ELSE None
             c1 == change_status(c, IDLE)
             c2 == [c1 EXCEPT !.velocity = 0, !.trip_started_at = None]
             c3 == raise_event(c2, CartStopped(c2.position, trip_duration))
         IN  Ok(c3)


Battery_consume_unfloored(level, n, d) == RoundHalfEven(level * d - n, d)

\* Battery.consume(amount) with amount = n/d percent-tenths, d > 0:
\* Battery(max(0, level - amount)), rounded to one decimal
Battery_consume(level, n, d) ==
    IF level * d - n <= 0 THEN 0 ELSE RoundHalfEven(level * d - n, d)

\* Battery.charge(amount): Battery(min(100, level + amount))
Battery_charge(level, amount) ==
    IF level + amount >= 1000 THEN 1000 ELSE level + amount

\* Battery.__init__(level), level in tenths: the new level, or the exception
Battery(level) ==
    IF ~Battery_valid(level)
    THEN [exc |-> IVE, level |-> 0]
    ELSE [exc |-> "none", level |-> level]

Max(a, b) == IF a >= b THEN a ELSE b
Min(a, b) == IF a <= b THEN a ELSE b

\* Battery.consume(amount) called on the value object, amount in tenths
consume(level, amount) == Battery(Max(0, level - amount))

\* Battery.charge(amount) called on the value object, amount in tenths
charge(level, amount) == Battery(Min(1000, level + amount))

consume_battery(c, t) ==
    IF c.last_position_update = None THEN c
    ELSE LET minutes == t - c.last_position_update[1]
             \* RATE * (minutes/60) * (speed/20), in tenths of a percent, as n/1200
             n == BATTERY_CONSUMPTION_RATE * minutes * c.velocity
             new == Battery_consume(c.battery, n, 1200)
             c1 == [c EXCEPT !.battery = new]
         IN  IF ~Battery_is_critical(c.battery) /\ Battery_is_critical(new)
             THEN raise_event(c1, BatteryCritical(new))
             ELSE IF ~Battery_is_low(c.battery) /\ Battery_is_low(new)
             THEN raise_event(c1, BatteryLow(new))
             ELSE c1

check_idle_timeout_at_limit(c, t) ==
    IF c.last_position_update = None THEN c
    ELSE IF t - c.last_position_update[1] >= MAX_IDLE_TIME_MINUTES
    THEN stop_trip(c, t).cart
    ELSE c

check_idle_timeout(c, t) ==
    IF c.last_position_update = None THEN c
    ELSE IF t - c.last_position_update[1] > MAX_IDLE_TIME_MINUTES
    THEN stop_trip(c, t).cart
    ELSE c

update_position(c, p, v, t) ==
    IF ~Position_valid(p) THEN Raise(c, IVE, "Invalid position")
    ELSE IF ~Velocity_valid(v) THEN Raise(c, IVE, "Invalid velocity")
    ELSE LET c1 == [c EXCEPT !.position = p, !.velocity = v]
             started == IF Velocity_is_moving(v) /\ c1.status = IDLE
                        THEN start_trip(c1, t)
                        ELSE IF Velocity_is_stopped(v) /\ c1.status = RUNNING
                        THEN Ok(check_idle_timeout(c1, t))
                        ELSE Ok(c1)
         IN  IF started.exc # "none" THEN started
             ELSE LET c2 == started.cart
                      c3 == IF Velocity_is_moving(v) THEN consume_battery(c2, t) ELSE c2
                      c4 == [c3 EXCEPT !.last_position_update = Some(t)]
                      c5 == raise_event(c4, PositionUpdated(c.position, p, v))
                  IN  Ok(c5)

charge_battery(c, amount, t) ==
    IF c.status = RUNNING
    THEN Raise(c, BRV, "Cannot charge battery while cart is running")
    ELSE IF ~Battery_valid(Battery_charge(c.battery, amount))
    THEN Raise(c, IVE, "Invalid battery level")
    ELSE LET c1 == [c EXCEPT !.battery = Battery_charge(c.battery, amount)]
             c2 == IF c1.status # CHARGING THEN change_status(c1, CHARGING) ELSE c1
             c3 == IF Battery_is_low(c.battery) /\ ~Battery_is_low(c2.battery)
                   THEN [raise_event(c2, CartStatusChanged(CHARGING, IDLE))
                            EXCEPT !.status = IDLE]
                   ELSE c2
         IN  Ok(c3)

start_maintenance_without_stop(c, t) ==
    LET c2 == change_status(c, FIXING)
        c3 == raise_event(c2, MaintenanceRequired)
    IN  Ok(c3)

start_maintenance(c, t) ==
    LET c1 == IF c.status = RUNNING THEN stop_trip(c, t).cart ELSE c
        c2 == change_status(c1, FIXING)
        c3 == raise_event(c2, MaintenanceRequired)
    IN  Ok(c3)

complete_maintenance_keeps_battery(c, t) ==
    IF c.status # FIXING
    THEN Raise(c, BRV, "Cart is not in maintenance mode")
    ELSE LET c1 == [c EXCEPT !.last_maintenance = Some(t)]
             c2 == change_status(c1, IDLE)
         IN  Ok(c2)

complete_maintenance(c, t) ==
    IF c.status # FIXING
    THEN Raise(c, BRV, "Cart is not in maintenance mode")
    ELSE LET c1 == [c EXCEPT !.last_maintenance = Some(t), !.battery = 1000]
             c2 == change_status(c1, IDLE)
         IN  Ok(c2)

decommission(c, t) ==
    LET c1 == IF c.status = RUNNING THEN stop_trip(c, t).cart ELSE c
        c2 == change_status(c1, OUT_OF_SERVICE)
    IN  Ok(c2)

can_accept_reservation(c, t) ==
    /\ c.status \in {IDLE, CHARGING}
    /\ Battery_can_start_trip(c.battery)
    /\ ~needs_maintenance(c, t)

pull_events_keeps_queue(c) == [events |-> c.events, cart |-> c]

\* pull_events handing the events out newest first
pull_events_newest_first(c) ==
    [events |-> [i \in 1..Len(c.events) |-> c.events[Len(c.events) + 1 - i]],
     cart |-> [c EXCEPT !.events = <<>>]]

\* Entity.pull_events: the events returned and the entity afterwards
pull_events(c) == [events |-> c.events, cart |-> [c EXCEPT !.events = <<>>]]

---------------------------------------------------------------------------
(* Inputs drawn by the operations *)

Positions == {<<37, -122>>}
BadPositions == {<<91, 0>>}
Velocities == {0, 200}
BadVelocities == {301}
ChargeAmounts == {-50, 0, 50, 1000}
InitBatteries == {150, 200, 250}
TimeSteps == {30, 31, 60, 30 * MinutesPerDay}
InitMaintenance == {None, Some(0)}

NoArgs == [position |-> <<0, 0>>, velocity |-> 0, amount |-> 0]

---------------------------------------------------------------------------
(* Initial values of the storage and bus variables *)

TheCart == "c1"
CartIds == {TheCart, "c2"}
NoRow == <<>>

StoreInit ==
    /\ db = [i \in CartIds |-> NoRow]
    /\ session = None
    /\ scope = [kind |-> "none", pc |-> "closed", tx |-> 0, exc |-> "none",
                save_called |-> FALSE, uow_session |-> FALSE, closed |-> TRUE]
    /\ stream = <<>>
    /\ txs = <<>>
    /\ lastSave = [n |-> 0, pending |-> 0, published |-> 0]
    /\ found = None

BusInit ==
    /\ group = [created |-> FALSE, last_delivered |-> 0, pel |-> {}, acked |-> {},
                deliveries |-> <<>>]
    /\ disp = [pc |-> "stopped", cur |-> 0]
    /\ runs = <<>>
    /\ errlog = {}
    /\ crashes = 0
    /\ event_logs = <<>>
    /\ loop = [tasks |-> <<>>, ready |-> <<>>,
               outer |-> [state |-> "none", id |-> 0, nfinished |-> 0, nfuts |-> 0]]

---------------------------------------------------------------------------
(* The aggregate on its own: every public operation, called at any time *)

Called(name, a, r) ==
    /\ Len(cart.events) <= MaxPending
    /\ calls < MaxCalls
    /\ calls' = calls + 1
    /\ cart' = r.cart
    /\ op' = name
    /\ args' = a
    /\ res' = [exc |-> r.exc, msg |-> r.msg]
    /\ UNCHANGED <<now, ticks>>

StartTrip == Called("start_trip", NoArgs, start_trip(cart, now))

StopTrip == Called("stop_trip", NoArgs, stop_trip(cart, now))

UpdatePosition ==
    \E p \in Positions \cup BadPositions, v \in Velocities \cup BadVelocities :
        Called("update_position", [NoArgs EXCEPT !.position = p, !.velocity = v],
               update_position(cart, p, v, now))

ChargeBattery ==
    \E a \in ChargeAmounts :
        Called("charge_battery", [NoArgs EXCEPT !.amount = a], charge_battery(cart, a, now))

StartMaintenance == Called("start_maintenance", NoArgs, start_maintenance(cart, now))

CompleteMaintenance == Called("complete_maintenance", NoArgs, complete_maintenance(cart, now))

Decommission == Called("decommission", NoArgs, decommission(cart, now))

PullEvents ==
    /\ cart.events # <<>>
    /\ cart' = pull_events(cart).cart
    /\ op' = "pull_events"
    /\ args' = NoArgs
    /\ res' = NoExc
    /\ UNCHANGED <<now, ticks, calls>>

Tick ==
    \E d \in TimeSteps :
        /\ ticks < MaxTicks
        /\ now' = now + d
        /\ ticks' = ticks + 1
            /\ op' = "tick"
        /\ args' = NoArgs
        /\ res' = NoExc
        /\ UNCHANGED <<cart, calls>>

CartInit ==
    /\ now = 0
    /\ ticks = 0
    /\ calls = 0
    /\ \E has_id \in BOOLEAN, b \in InitBatteries, s \in CartStatus, m \in InitMaintenance :
          cart = GolfCart(CART001, has_id, <<0, 0>>, b, s, m)
    /\ op = "init"
    /\ args = NoArgs
    /\ res = NoExc

Init == CartInit /\ StoreInit /\ BusInit

Next ==
    \/ StartTrip /\ UNCHANGED storeVars /\ UNCHANGED busVars
    \/ StopTrip /\ UNCHANGED storeVars /\ UNCHANGED busVars
    \/ UpdatePosition /\ UNCHANGED storeVars /\ UNCHANGED busVars
    \/ ChargeBattery /\ UNCHANGED storeVars /\ UNCHANGED busVars
    \/ StartMaintenance /\ UNCHANGED storeVars /\ UNCHANGED busVars
    \/ CompleteMaintenance /\ UNCHANGED storeVars /\ UNCHANGED busVars
    \/ Decommission /\ UNCHANGED storeVars /\ UNCHANGED busVars
    \/ PullEvents /\ UNCHANGED storeVars /\ UNCHANGED busVars
    \/ Tick /\ UNCHANGED storeVars /\ UNCHANGED busVars

Spec == Init /\ [][Next]_vars

---------------------------------------------------------------------------
(* The event queue of the entity: operations that raise events, and
   pull_events called at any time, also twice in a row *)

PullEventsCall ==
    /\ calls < MaxCalls
    /\ calls' = calls + 1
    /\ cart' = pull_events(cart).cart
    /\ op' = "pull_events"
    /\ args' = NoArgs
    /\ res' = [exc |-> "none", msg |-> "", events |-> pull_events(cart).events]
    /\ UNCHANGED <<now, ticks>>

NextPull ==
    \/ StartTrip /\ UNCHANGED storeVars /\ UNCHANGED busVars
    \/ StopTrip /\ UNCHANGED storeVars /\ UNCHANGED busVars
    \/ StartMaintenance /\ UNCHANGED storeVars /\ UNCHANGED busVars
    \/ PullEventsCall /\ UNCHANGED storeVars /\ UNCHANGED busVars

SpecPull == Init /\ [][NextPull]_vars

---------------------------------------------------------------------------
(* The Battery value object on its own: consume and charge with any amount *)

BatteryLevels == {0, 55, 500, 1000}
BatteryAmounts == {-2000, -100, 0, 105, 2000}

\* b = b.consume(amount) / b = b.charge(amount): the battery at hand is the
\* one returned; it is kept when the call raises
BatteryCall(name, amount, r) ==
    Called(name, [NoArgs EXCEPT !.amount = amount],
           IF r.exc = "none"
           THEN Ok([cart EXCEPT !.battery = r.level])
           ELSE Raise(cart, r.exc, "Invalid battery level"))

BatteryConsume ==
    \E y \in BatteryAmounts : BatteryCall("Battery.consume", y, consume(cart.battery, y))

BatteryCharge ==
    \E y \in BatteryAmounts : BatteryCall("Battery.charge", y, charge(cart.battery, y))

BatteryCartInit ==
    /\ now = 0
    /\ ticks = 0
    /\ calls = 0
    /\ \E b \in BatteryLevels : cart = GolfCart(CART001, TRUE, <<0, 0>>, b, IDLE, Some(0))
    /\ op = "init"
    /\ args = NoArgs
    /\ res = NoExc

InitBattery == BatteryCartInit /\ StoreInit /\ BusInit

NextBattery ==
    \/ BatteryConsume /\ UNCHANGED storeVars /\ UNCHANGED busVars
    \/ BatteryCharge /\ UNCHANGED storeVars /\ UNCHANGED busVars

SpecBattery == InitBattery /\ [][NextBattery]_vars

---------------------------------------------------------------------------
(* Event wire format: DomainEvent.to_dict and the concrete _get_payload *)

get_payload(e) ==
    IF e.name = "CartStopped"
    THEN IF e.payload.trip_duration_seconds = None \/ e.payload.trip_duration_seconds = Some(0)
         THEN [position |-> e.payload.position]
         ELSE [position |-> e.payload.position,
               trip_duration_seconds |-> e.payload.trip_duration_seconds[1]]
    ELSE e.payload

to_dict(e) == [event_name |-> e.name, payload |-> get_payload(e)]

\* EventBus.publish: the message XADDed for an event, its one field event_json
\* (keyed: the field is there); tx names the transaction scope in which it was
\* published (bookkeeping, not part of the message). The event_id of the event
\* is a fresh uuid4: the position of the message in the stream stands for it.
Message(e, tx) == [event_json |-> to_dict(e), decodable |-> TRUE, keyed |-> TRUE, tx |-> tx]

---------------------------------------------------------------------------
(* SQLAlchemyCartRepository: rows, mapping, save, get_by_id *)

to_model(c) ==
    [cart_number |-> c.cart_number,
     position |-> c.position,
     velocity |-> c.velocity,
     status |-> c.status,
     battery_level |-> c.battery,
     last_maintenance |-> c.last_maintenance]

\* _to_domain building the cart without its entity_id
to_domain_as_new(row) ==
    [GolfCart(CartNumber(row.cart_number).value, FALSE, row.position,
              IF row.battery_level = 0 THEN 1000 ELSE row.battery_level,
              row.status, row.last_maintenance)
        EXCEPT !.velocity = row.velocity]

to_domain(row) ==
    [GolfCart(CartNumber(row.cart_number).value, TRUE, row.position,
              IF row.battery_level = 0 THEN 1000 ELSE row.battery_level,
              row.status, row.last_maintenance)
        EXCEPT !.velocity = row.velocity]

\* the events published by the loop of save when the publish of event k+1 fails
\* (k = Len(events): none fails), in the order of the loop
publish_loop(events, k, tx) == [i \in 1..k |-> Message(events[i], tx)]

\* save(cart) of the cart with the given id in the session `view`, the publish
\* of event k+1 failing
save(id, c, view, k, tx) ==
    LET pulled == pull_events(c)
    IN  [view |-> [view EXCEPT ![id] = Some(to_model(c))],
         cart |-> pulled.cart,
         published |-> publish_loop(pulled.events, k, tx),
         exc |-> IF k < Len(pulled.events) THEN "ConnectionError" ELSE "none"]

\* UnitOfWork.golf_cart_repository: SQLAlchemyCartRepository(self.session) is
\* called without the event_bus argument that __init__(self, db, event_bus) requires
golf_cart_repository == [exc |-> "TypeError"]

---------------------------------------------------------------------------
(* Transaction scopes: UnitOfWork (async with uow / uow.transaction()) and the
   get_db session scope that get_golf_cart_repository(db, event_bus) runs in *)

InScope(kind) == scope.kind = kind /\ scope.pc = "open"

Enter(kind) ==
    /\ scope.pc = "closed"
    /\ Len(txs) < MaxScopes
    /\ session' = Some(db)
    /\ scope' = [kind |-> kind, pc |-> "open", tx |-> Len(txs) + 1, exc |-> "none",
                 save_called |-> FALSE, uow_session |-> kind = "uow", closed |-> FALSE]
    /\ UNCHANGED <<db, stream, txs, lastSave, found, cartVars>>

UowEnter == Enter("uow")

GetDbEnter == Enter("get_db")

\* the body of a UnitOfWork scope runs `await uow.golf_cart_repository.save(cart)`
UowSave ==
    /\ InScope("uow")
    /\ op' = "uow.golf_cart_repository"
    /\ res' = [exc |-> golf_cart_repository.exc, msg |-> "missing event_bus"]
    /\ scope' = [scope EXCEPT !.pc = "raised", !.exc = golf_cart_repository.exc,
                              !.save_called = TRUE]
    /\ UNCHANGED <<cart, args, now, ticks, calls, db, session, stream, txs, lastSave, found>>

\* the body of a UnitOfWork scope runs `await uow.golf_cart_repository.get_by_id(id)`
UowGetById ==
    /\ InScope("uow")
    /\ op' = "uow.golf_cart_repository"
    /\ res' = [exc |-> golf_cart_repository.exc, msg |-> "missing event_bus"]
    /\ scope' = [scope EXCEPT !.pc = "raised", !.exc = golf_cart_repository.exc]
    /\ UNCHANGED <<cart, args, now, ticks, calls, db, session, stream, txs, lastSave, found>>

\* repository.save(cart) in a get_db scope
Save ==
    /\ InScope("get_db")
    /\ Len(stream) + Len(cart.events) <= MaxStream
    /\ lastSave.n < MaxSaves
    /\ \E k \in 0..Len(cart.events) :
          LET r == save(TheCart, cart, session[1], k, scope.tx)
          IN  /\ cart' = r.cart
              /\ session' = Some(r.view)
              /\ stream' = stream \o r.published
              /\ res' = [exc |-> r.exc, msg |-> ""]
              /\ scope' = IF r.exc = "none"
                          THEN [scope EXCEPT !.save_called = TRUE]
                          ELSE [scope EXCEPT !.save_called = TRUE, !.pc = "raised",
                                             !.exc = r.exc]
              /\ lastSave' = [n |-> lastSave.n + 1, pending |-> Len(cart.events),
                              published |-> Len(r.published)]
    /\ op' = "save"
    /\ UNCHANGED <<args, now, ticks, calls, db, txs, found>>

\* repository.get_by_id(id) in a get_db scope: the handler's local aggregate is
\* replaced by the one rebuilt from the row
GetById ==
    /\ InScope("get_db")
    /\ found' = session[1][TheCart]
    /\ cart' = IF session[1][TheCart] = NoRow THEN cart
               ELSE to_domain(session[1][TheCart][1])
    /\ op' = "get_by_id"
    /\ res' = NoExc
    /\ UNCHANGED <<args, now, ticks, calls, db, session, scope, stream, txs, lastSave>>

\* the code inside the scope raises an exception of its own
BodyRaise ==
    /\ scope.pc = "open"
    /\ scope' = [scope EXCEPT !.pc = "raised", !.exc = "Exception"]
    /\ UNCHANGED <<cartVars, db, session, stream, txs, lastSave, found>>

\* UnitOfWork.__aexit__: rollback on exception, else commit; then close.
\* A commit that raises leaves __aexit__ before the session is closed.
UowExit ==
    /\ scope.kind = "uow"
    /\ scope.pc \in {"open", "raised"}
    /\ \/ /\ scope.pc = "raised"
          /\ txs' = Append(txs, "rolled_back")
          /\ session' = None
          /\ scope' = [scope EXCEPT !.pc = "closed", !.uow_session = FALSE, !.closed = TRUE]
          /\ UNCHANGED db
       \/ /\ scope.pc = "open"
          /\ txs' = Append(txs, "committed")
          /\ db' = session[1]
          /\ session' = None
          /\ scope' = [scope EXCEPT !.pc = "closed", !.uow_session = FALSE, !.closed = TRUE]
       \/ /\ scope.pc = "open"
          /\ txs' = Append(txs, "commit_failed")
          /\ scope' = [scope EXCEPT !.pc = "closed", !.exc = "CommitError"]
          /\ UNCHANGED <<db, session>>
    /\ UNCHANGED <<cartVars, stream, lastSave, found>>

\* get_db: what the generator does with the session after the request body
get_db_exit(pc) == IF pc = "raised" THEN "rolled_back" ELSE "committed"

\* database.get_db: commit after the body, rollback and re-raise on any
\* exception (a failing commit included), close in every case
GetDbExit ==
    /\ scope.kind = "get_db"
    /\ scope.pc \in {"open", "raised"}
    /\ \/ /\ get_db_exit(scope.pc) = "rolled_back"
          /\ txs' = Append(txs, "rolled_back")
          /\ scope' = [scope EXCEPT !.pc = "closed", !.closed = TRUE]
          /\ UNCHANGED db
       \/ /\ get_db_exit(scope.pc) = "committed"
          /\ txs' = Append(txs, "committed")
          /\ db' = session[1]
          /\ scope' = [scope EXCEPT !.pc = "closed", !.closed = TRUE]
       \/ /\ get_db_exit(scope.pc) = "committed"
          /\ txs' = Append(txs, "commit_failed")
          /\ scope' = [scope EXCEPT !.pc = "closed", !.exc = "CommitError", !.closed = TRUE]
          /\ UNCHANGED db
    /\ session' = None
    /\ UNCHANGED <<cartVars, stream, lastSave, found>>

InitMaintenanceStore == {Some(0)}

StoreCartInit ==
    /\ now = 0
    /\ ticks = 0
    /\ calls = 0
    /\ \E has_id \in BOOLEAN, s \in {IDLE, RUNNING}, m \in InitMaintenanceStore :
          cart = GolfCart(CART001, has_id, <<0, 0>>, 1000, s, m)
    /\ op = "init"
    /\ args = NoArgs
    /\ res = NoExc

InitStore == StoreCartInit /\ StoreInit /\ BusInit

NextStore ==
    \/ UowEnter /\ UNCHANGED busVars
    \/ GetDbEnter /\ UNCHANGED busVars
    \/ UowSave /\ UNCHANGED busVars
    \/ UowGetById /\ UNCHANGED busVars
    \/ Save /\ UNCHANGED busVars
    \/ GetById /\ UNCHANGED busVars
    \/ BodyRaise /\ UNCHANGED busVars
    \/ UowExit /\ UNCHANGED busVars
    \/ GetDbExit /\ UNCHANGED busVars
    \/ StartTrip /\ UNCHANGED storeVars /\ UNCHANGED busVars
    \/ StopTrip /\ UNCHANGED storeVars /\ UNCHANGED busVars
    \/ StartMaintenance /\ UNCHANGED storeVars /\ UNCHANGED busVars

SpecStore == InitStore /\ [][NextStore]_vars

---------------------------------------------------------------------------
(* Application layer: the command handlers and GolfCartApplicationService.
   A command runs in one get_db scope: the handler's writes are committed when
   it returns and rolled back when it raises. *)

ENF == "EntityNotFound"

\* what a handler leaves behind: the session's rows, the messages published,
\* the aggregate it worked on (None: none was built or loaded), the exception
Handled(view, published, c, e, m) ==
    [view |-> view, published |-> published, cart |-> c, exc |-> e, msg |-> m]

\* the first query of a handler when the database cannot be reached
OperationalError(view) == Handled(view, <<>>, None, "OperationalError", "connection refused")

\* SQLAlchemyCartRepository.cart_number_exists
cart_number_exists(view, cart_number) ==
    \E i \in DOMAIN view : view[i] # NoRow /\ view[i][1].cart_number = cart_number

\* RegisterCartHandler.handle; id is the uuid4 of the new entity, up is whether
\* the database can be reached
register_handle(command, view, id, up) ==
    LET cn == CartNumber(command.cart_number)
    IN  IF cn.exc # "none" THEN Handled(view, <<>>, None, cn.exc, cn.msg)
        ELSE IF ~up THEN OperationalError(view)
        ELSE IF cart_number_exists(view, cn.value)
        THEN Handled(view, <<>>, None, BRV, "Cart with number already exists.")
        ELSE IF ~Position_valid(command.position)
        THEN Handled(view, <<>>, None, IVE, "Invalid position")
        ELSE IF Battery(command.initial_battery).exc # "none"
        THEN Handled(view, <<>>, None, IVE, "Invalid battery level")
        ELSE LET c == GolfCart(cn.value, FALSE, command.position,
                               Battery(command.initial_battery).level,
                               command.initial_status, None)
                 s == save(id, c, view, Len(c.events), 0)
             IN  Handled(s.view, s.published, Some(s.cart), "none", "")

\* the shared body without its not-found check
handle_loaded_unchecked(view, id, r, up) ==
    IF ~up THEN Handled(view, <<>>, None, "OperationalError", "connection refused")
    ELSE IF r.exc # "none"
    THEN Handled(view, <<>>, Some(r.cart), r.exc, r.msg)
    ELSE LET s == save(id, r.cart, view, Len(r.cart.events), 0)
         IN  Handled(s.view, s.published, Some(s.cart), "none", "")

\* the body shared by the handlers that take a cart id: get_by_id, the
\* not-found check, the operation r on the loaded cart, save
handle_loaded(view, id, r, up) ==
    IF ~up THEN OperationalError(view)
    ELSE IF view[id] = NoRow
    THEN Handled(view, <<>>, None, ENF, "Cart with ID not found.")
    ELSE IF r.exc # "none"
    THEN Handled(view, <<>>, Some(r.cart), r.exc, r.msg)
    ELSE LET s == save(id, r.cart, view, Len(r.cart.events), 0)
         IN  Handled(s.view, s.published, Some(s.cart), "none", "")

\* the cart get_by_id returns (any cart when there is none: it is not used)
loaded(view, id, c) == IF view[id] = NoRow THEN c ELSE to_domain(view[id][1])

\* UpdatePositionHandler.handle
position_handle(view, id, p, v, t, up) ==
    handle_loaded(view, id, update_position(loaded(view, id, cart), p, v, t), up)

\* CartStatusHandlers
handle_start_trip(view, id, t, up) ==
    handle_loaded(view, id, start_trip(loaded(view, id, cart), t), up)

handle_stop_trip(view, id, t, up) ==
    handle_loaded(view, id, stop_trip(loaded(view, id, cart), t), up)

handle_start_maintenance(view, id, t, up) ==
    handle_loaded(view, id, start_maintenance(loaded(view, id, cart), t), up)

handle_complete_maintenance(view, id, t, up) ==
    handle_loaded(view, id, complete_maintenance(loaded(view, id, cart), t), up)

handle_charge_battery(view, id, amount, t, up) ==
    LET c == loaded(view, id, cart)
    IN  handle_loaded(view, id,
            IF amount <= 0 THEN Raise(c, BRV, "Charge amount must be positive.")
            ELSE charge_battery(c, amount, t), up)

\* GolfCartApplicationService: `try: handler / except <passed>: raise /
\* except Exception as e: raise Exception(f"<prefix>: {e}")`; the text of e
\* that follows the prefix is left out
service(h, passed, prefix) ==
    IF h.exc = "none" \/ h.exc \in passed
    THEN [exc |-> h.exc, msg |-> h.msg]
    ELSE [exc |-> "Exception", msg |-> prefix]

register_cart(h) == service(h, {BRV}, "Failed to register cart")
update_cart_position(h) == service(h, {ENF, BRV}, "Failed to update cart position")
service_start_trip(h) == service(h, {ENF, BRV}, "Failed to start trip")
service_stop_trip(h) == service(h, {ENF, BRV}, "Failed to stop trip")
\* a handler called without the service: its exception reaches the caller
unwrapped(h) == [exc |-> h.exc, msg |-> h.msg]

(* Inputs of the commands *)
RawNumbers == {<<"g", "c", "1">>, <<" ", "G", "c", "1">>, <<"G", "C", "2">>, <<"g">>}
RegisterBatteries == {0, 1000}
RegisterPositions == {<<37, -122>>, <<91, 0>>}
RegisterStatuses == {IDLE, RUNNING}
AppVelocities == {200, 301}
AppChargeAmounts == {0, 50}
GC1 == <<"G", "C", "1">>

AppArgs(id, number, p, v, amount, b) ==
    [id |-> id, cart_number |-> number, position |-> p, velocity |-> v,
     amount |-> amount, battery |-> b]

\* one command: the handler result h, the exception r its caller sees
Command(name, a, h, r) ==
    /\ calls < MaxCalls
    /\ calls' = calls + 1
    /\ op' = name
    /\ args' = a
    /\ res' = [exc |-> r.exc, msg |-> r.msg, inner |-> [exc |-> h.exc, msg |-> h.msg]]
    /\ db' = IF h.exc = "none" THEN h.view ELSE db
    /\ stream' = stream \o h.published
    /\ cart' = IF h.cart = None THEN cart ELSE h.cart[1]
    /\ found' = None
    /\ UNCHANGED <<now, ticks, session, scope, txs, lastSave>>

RegisterCart ==
    /\ \E i \in CartIds : db[i] = NoRow
    /\ \E raw \in RawNumbers, p \in RegisterPositions, b \in RegisterBatteries,
          st \in RegisterStatuses, up \in BOOLEAN :
          LET id == CHOOSE i \in CartIds : db[i] = NoRow
              h == register_handle([cart_number |-> raw, position |-> p,
                                    initial_battery |-> b, initial_status |-> st],
                                   db, id, up)
          IN  Command("service.register_cart", AppArgs(id, raw, p, 0, 0, b), h, register_cart(h))

UpdateCartPosition ==
    \E id \in CartIds, p \in RegisterPositions, v \in AppVelocities, up \in BOOLEAN :
        LET h == position_handle(db, id, p, v, now, up)
        IN  Command("service.update_cart_position", AppArgs(id, <<>>, p, v, 0, 0),
                    h, update_cart_position(h))

ServiceStartTrip ==
    \E id \in CartIds, up \in BOOLEAN :
        LET h == handle_start_trip(db, id, now, up)
        IN  Command("service.start_trip", AppArgs(id, <<>>, <<0, 0>>, 0, 0, 0),
                    h, service_start_trip(h))

ServiceStopTrip ==
    \E id \in CartIds, up \in BOOLEAN :
        LET h == handle_stop_trip(db, id, now, up)
        IN  Command("service.stop_trip", AppArgs(id, <<>>, <<0, 0>>, 0, 0, 0),
                    h, service_stop_trip(h))

HandleStartMaintenance ==
    \E id \in CartIds :
        LET h == handle_start_maintenance(db, id, now, TRUE)
        IN  Command("handle_start_maintenance", AppArgs(id, <<>>, <<0, 0>>, 0, 0, 0),
                    h, unwrapped(h))

HandleCompleteMaintenance ==
    \E id \in CartIds :
        LET h == handle_complete_maintenance(db, id, now, TRUE)
        IN  Command("handle_complete_maintenance", AppArgs(id, <<>>, <<0, 0>>, 0, 0, 0),
                    h, unwrapped(h))

HandleChargeBattery ==
    \E id \in CartIds, a \in AppChargeAmounts :
        LET h == handle_charge_battery(db, id, a, now, TRUE)
        IN  Command("handle_charge_battery", AppArgs(id, <<>>, <<0, 0>>, 0, a, 0),
                    h, unwrapped(h))

\* repository.get_by_id(id) in a scope of its own
LoadById ==
    \E id \in CartIds :
        /\ calls < MaxCalls
        /\ calls' = calls + 1
        /\ op' = "get_by_id"
        /\ args' = AppArgs(id, <<>>, <<0, 0>>, 0, 0, 0)
        /\ res' = [exc |-> "none", msg |-> "", inner |-> NoExc]
        /\ found' = IF db[id] = NoRow THEN None ELSE Some(to_domain(db[id][1]))
        /\ UNCHANGED <<cart, now, ticks, db, session, scope, stream, txs, lastSave>>

\* the carts stored before the first command: none, an idle cart, a running one
AppStores ==
    {[i \in CartIds |-> NoRow]} \cup
    {[i \in CartIds |-> IF i = TheCart
                        THEN Some(to_model(GolfCart(GC1, TRUE, <<0, 0>>, b, s, Some(0))))
                        ELSE NoRow] : b \in {150, 1000}, s \in {IDLE, RUNNING}}

InitApp ==
    /\ now = 0 /\ ticks = 0 /\ calls = 0
    /\ cart = GolfCart(CART001, TRUE, <<0, 0>>, 1000, IDLE, None)
    /\ op = "init" /\ args = AppArgs(TheCart, <<>>, <<0, 0>>, 0, 0, 0) /\ res = NoExc
    /\ db \in AppStores
    /\ session = None
    /\ scope = [kind |-> "none", pc |-> "closed", tx |-> 0, exc |-> "none",
                save_called |-> FALSE, uow_session |-> FALSE, closed |-> TRUE]
    /\ stream = <<>>
    /\ txs = <<>>
    /\ lastSave = [n |-> 0, pending |-> 0, published |-> 0]
    /\ found = None
    /\ BusInit

NextApp ==
    \/ RegisterCart /\ UNCHANGED busVars
    \/ UpdateCartPosition /\ UNCHANGED busVars
    \/ ServiceStartTrip /\ UNCHANGED busVars
    \/ ServiceStopTrip /\ UNCHANGED busVars
    \/ HandleStartMaintenance /\ UNCHANGED busVars
    \/ HandleCompleteMaintenance /\ UNCHANGED busVars
    \/ HandleChargeBattery /\ UNCHANGED busVars
    \/ LoadById /\ UNCHANGED busVars

SpecApp == InitApp /\ [][NextApp]_vars

---------------------------------------------------------------------------
(* Two requests handled concurrently. Each request has a session and a
   repository of its own; a handler awaits get_by_id, runs the operation on the
   cart it loaded, and awaits save. Another request can run between the two
   awaits: neither get_by_id nor save locks the row or compares a version. *)

Requests == {1, 2}
ConcurrentCommands == {"start_trip", "stop_trip"}

\* the request's handler has not been called yet
NoRequest == [pc |-> "idle", command |-> "none", id |-> TheCart, loaded |-> None,
              exc |-> "none"]

\* `cart = await self.repository.get_by_id(command.cart_id)` and the not-found
\* check of the handler of request w
HandlerGetById(w) ==
    /\ session[w].pc = "idle"
    /\ \E name \in ConcurrentCommands, id \in {TheCart} :
          /\ op' = "get_by_id"
          /\ args' = AppArgs(id, <<>>, <<0, 0>>, 0, 0, 0)
          /\ IF db[id] = NoRow
             THEN /\ session' = [session EXCEPT ![w] =
                        [pc |-> "done", command |-> name, id |-> id, loaded |-> None,
                         exc |-> ENF]]
                  /\ res' = [exc |-> ENF, msg |-> "Cart with ID not found."]
                  /\ found' = None
             ELSE /\ session' = [session EXCEPT ![w] =
                        [pc |-> "loaded", command |-> name, id |-> id,
                         loaded |-> Some(to_domain(db[id][1])), exc |-> "none"]]
                  /\ res' = NoExc
                  /\ found' = Some(to_domain(db[id][1]))
    /\ UNCHANGED <<cart, now, ticks, calls, db, scope, stream, txs, lastSave>>

\* `cart.start_trip()` or `cart.stop_trip()` on the loaded cart, then
\* `await self.repository.save(cart)` and the commit of the request
OperateAndSave(w) ==
    /\ session[w].pc = "loaded"
    /\ LET c == session[w].loaded[1]
           r == IF session[w].command = "start_trip" THEN start_trip(c, now)
                ELSE stop_trip(c, now)
           s == save(session[w].id, r.cart, db, Len(r.cart.events), 0)
       IN  /\ op' = session[w].command
           /\ args' = AppArgs(session[w].id, <<>>, <<0, 0>>, 0, 0, 0)
           /\ res' = [exc |-> r.exc, msg |-> r.msg]
           /\ IF r.exc # "none"
              THEN /\ session' = [session EXCEPT ![w].pc = "done", ![w].exc = r.exc]
                   /\ cart' = r.cart
                   /\ UNCHANGED <<db, stream>>
              ELSE /\ session' = [session EXCEPT ![w].pc = "done",
                                                 ![w].loaded = Some(s.cart)]
                   /\ cart' = s.cart
                   /\ db' = s.view
                   /\ stream' = stream \o s.published
    /\ UNCHANGED <<now, ticks, calls, scope, txs, lastSave, found>>

\* the carts stored before the two requests, both about the cart c1: none, or
\* c1 idle or running
ConcurrentStores == AppStores

InitConcurrent ==
    /\ now = 0 /\ ticks = 0 /\ calls = 0
    /\ cart = GolfCart(CART001, TRUE, <<0, 0>>, 1000, IDLE, None)
    /\ op = "init" /\ args = AppArgs(TheCart, <<>>, <<0, 0>>, 0, 0, 0) /\ res = NoExc
    /\ db \in ConcurrentStores
    /\ session = [w \in Requests |-> NoRequest]
    /\ scope = [kind |-> "none", pc |-> "closed", tx |-> 0, exc |-> "none",
                save_called |-> FALSE, uow_session |-> FALSE, closed |-> TRUE]
    /\ stream = <<>>
    /\ txs = <<>>
    /\ lastSave = [n |-> 0, pending |-> 0, published |-> 0]
    /\ found = None
    /\ BusInit

NextConcurrent ==
    \/ \E w \in Requests : HandlerGetById(w) /\ UNCHANGED busVars
    \/ \E w \in Requests : OperateAndSave(w) /\ UNCHANGED busVars

SpecConcurrent == InitConcurrent /\ [][NextConcurrent]_vars

---------------------------------------------------------------------------
(* The same operations applied twice: as commands, each loading the cart from
   the repository and saving it, and as calls on one cart object kept in
   memory (the variable cart, its pending events pulled after each call). *)

MemoryVelocities == {0, 200}
MemoryPositions == {<<37, -122>>}

\* one command handled (h) and the same operation on the object in memory (r)
CommandAndCall(name, a, h, r) ==
    /\ calls < MaxCalls
    /\ calls' = calls + 1
    /\ op' = name
    /\ args' = a
    /\ res' = [exc |-> h.exc, msg |-> h.msg, inner |-> [exc |-> r.exc, msg |-> r.msg]]
    /\ db' = IF h.exc = "none" THEN h.view ELSE db
    /\ stream' = stream \o h.published
    /\ cart' = pull_events(r.cart).cart
    /\ found' = None
    /\ UNCHANGED <<now, ticks, session, scope, txs, lastSave>>

StartTripBoth ==
    CommandAndCall("handle_start_trip", AppArgs(TheCart, <<>>, <<0, 0>>, 0, 0, 0),
                   handle_start_trip(db, TheCart, now, TRUE), start_trip(cart, now))

StopTripBoth ==
    CommandAndCall("handle_stop_trip", AppArgs(TheCart, <<>>, <<0, 0>>, 0, 0, 0),
                   handle_stop_trip(db, TheCart, now, TRUE), stop_trip(cart, now))

UpdatePositionBoth ==
    \E p \in MemoryPositions, v \in MemoryVelocities :
        CommandAndCall("handle_update_position", AppArgs(TheCart, <<>>, p, v, 0, 0),
                       position_handle(db, TheCart, p, v, now, TRUE),
                       update_position(cart, p, v, now))

\* a maintained idle cart with a full battery, stored and in memory
InitReload ==
    /\ now = 0 /\ ticks = 0 /\ calls = 0
    /\ cart = GolfCart(GC1, TRUE, <<0, 0>>, 1000, IDLE, Some(0))
    /\ op = "init" /\ args = AppArgs(TheCart, <<>>, <<0, 0>>, 0, 0, 0) /\ res = NoExc
    /\ db = [i \in CartIds |-> IF i = TheCart THEN Some(to_model(cart)) ELSE NoRow]
    /\ session = None
    /\ scope = [kind |-> "none", pc |-> "closed", tx |-> 0, exc |-> "none",
                save_called |-> FALSE, uow_session |-> FALSE, closed |-> TRUE]
    /\ stream = <<>>
    /\ txs = <<>>
    /\ lastSave = [n |-> 0, pending |-> 0, published |-> 0]
    /\ found = None
    /\ BusInit

ReloadTick ==
    \E d \in {1, 31} :
        /\ ticks < MaxTicks
        /\ now' = now + d
        /\ ticks' = ticks + 1
        /\ op' = "tick"
        /\ res' = NoExc
        /\ UNCHANGED <<cart, args, calls>>

NextReload ==
    \/ ReloadTick /\ UNCHANGED <<storeVars, busVars>>
    \/ StartTripBoth /\ UNCHANGED busVars
    \/ StopTripBoth /\ UNCHANGED busVars
    \/ UpdatePositionBoth /\ UNCHANGED busVars

SpecReload == InitReload /\ [][NextReload]_vars

---------------------------------------------------------------------------
(* EventDispatcher: the registered handlers, the consumer group of the stream,
   the loop of start and _handle_message *)

LOG == "log_event_handler"
NOTIFY == "notification_handler"
AUDIT == "auditing_handler"
HandlerNames == {LOG, NOTIFY, AUDIT}

all_events ==
    {"CartRegistered", "CartStarted", "CartStopped", "PositionUpdated",
     "BatteryLow", "BatteryCritical", "CartStatusChanged", "MaintenanceRequired"}

\* get_event_dispatcher: the handlers of an event name, in registration order
Handlers(event_name) ==
    IF event_name \in {"CartStatusChanged", "BatteryCritical"}
    THEN <<LOG, NOTIFY, AUDIT>>
    ELSE IF event_name \in all_events THEN <<LOG, AUDIT>> ELSE <<>>

Range(s) == {s[i] : i \in 1..Len(s)}

\* what a handler coroutine does once it runs: it returns or it raises
Outcomes == [HandlerNames -> {"ok", "raised"}]

\* a loop awaiting the handlers one by one: stops at the first that raises
tasks_awaited_in_turn(hs, outcome) ==
    {hs[i] : i \in {k \in 1..Len(hs) : \A j \in 1..(k - 1) : outcome[hs[j]] = "ok"}}

\* tasks = [handler(event_data) ...]; gather starts every one of them, and a
\* task that raises does not cancel the others
tasks(hs, outcome) == Range(hs)

\* gather with return_exceptions=True: never raises
gather_return_exceptions(invoked, outcome) == "ok"

\* await asyncio.gather(*tasks): raises when one of the tasks raised
gather(invoked, outcome) ==
    IF \E h \in invoked : outcome[h] = "raised" THEN "raised" ELSE "ok"

\* auditing_handler(event_data) keeping the exception of a failed write
auditing_handler_reraising(id, log, session_ok, write_ok) ==
    IF ~session_ok
    THEN [result |-> "raised", log |-> log, audit |-> "none", printed |-> {}]
    ELSE IF ~write_ok \/ id \in Range(log)
    THEN [result |-> "raised", log |-> log, audit |-> "failed", printed |-> {}]
    ELSE [result |-> "ok", log |-> Append(log, id), audit |-> "written", printed |-> {}]

\* auditing_handler(event_data) for the event with the given event_id, log being
\* the event_logs table: SessionLocal() comes before the try (session_ok: it
\* returns); save_event and commit are inside it, and an exception of theirs
\* (write_ok false, or the unique event_id is in the table already) is printed
\* and rolled back, the handler returning normally
auditing_handler(id, log, session_ok, write_ok) ==
    IF ~session_ok
    THEN [result |-> "raised", log |-> log, audit |-> "none", printed |-> {}]
    ELSE IF ~write_ok \/ id \in Range(log)
    THEN [result |-> "ok", log |-> log, audit |-> "failed",
          printed |-> {[id |-> id, kind |-> "Error saving event to audit log"]}]
    ELSE [result |-> "ok", log |-> Append(log, id), audit |-> "written", printed |-> {}]

\* EventDispatcher._handle_message for message id with body m: the handlers
\* run, whether XACK was done, what was printed, and the event_logs table
\* afterwards
handle_message(id, m, outcome, xack_ok, log, write_ok) ==
    IF ~m.decodable
    THEN [run |-> [id |-> id, invoked |-> {}, raised |-> {}, audit |-> "none"],
          ack |-> FALSE,
          log |-> {[id |-> id, kind |-> "Error decoding JSON"]},
          event_logs |-> log]
    ELSE LET hs == Handlers(m.event_json.event_name)
             invoked == tasks(hs, outcome)
             audit == IF AUDIT \in invoked
                      THEN auditing_handler(id, log, outcome[AUDIT] = "ok", write_ok)
                      ELSE [result |-> "ok", log |-> log, audit |-> "none", printed |-> {}]
             ended == [outcome EXCEPT ![AUDIT] = audit.result]
             run == [id |-> id, invoked |-> invoked,
                     raised |-> {h \in invoked : ended[h] = "raised"},
                     audit |-> audit.audit]
         IN  IF gather(invoked, ended) = "raised" \/ ~xack_ok
             THEN [run |-> run, ack |-> FALSE,
                   log |-> audit.printed \cup {[id |-> id, kind |-> "Error processing message"]},
                   event_logs |-> audit.log]
             ELSE [run |-> run, ack |-> TRUE, log |-> audit.printed,
                   event_logs |-> audit.log]

\* the events published in the dispatcher specification
BusEvents == {CartStarted(<<0, 0>>), BatteryCritical(50)}

\* bodies written to the stream by another writer: not JSON, an event name
\* nobody registered for, or no field event_json at all
ForeignBodies ==
    {[event_json |-> [event_name |-> "", payload |-> [cart_number |-> ""]],
      decodable |-> FALSE, keyed |-> FALSE, tx |-> 0],
     [event_json |-> [event_name |-> "", payload |-> [cart_number |-> ""]],
      decodable |-> FALSE, keyed |-> TRUE, tx |-> 0],
     [event_json |-> [event_name |-> "Other", payload |-> [cart_number |-> ""]],
      decodable |-> TRUE, keyed |-> TRUE, tx |-> 0]}

busFrame == <<cartVars, db, session, scope, txs, lastSave, found, loop>>

\* EventBus.publish outside any transaction scope
Publish ==
    /\ Len(stream) < MaxMessages
    /\ \E e \in BusEvents : stream' = Append(stream, Message(e, 0))
    /\ UNCHANGED <<busFrame, busVars>>

ForeignXadd ==
    /\ Len(stream) < MaxMessages
    /\ \E body \in ForeignBodies : stream' = Append(stream, body)
    /\ UNCHANGED <<busFrame, busVars>>

\* what can go wrong with XGROUP CREATE besides the group being there already:
\* the connection, or another error reply of the server (the key is not a stream)
GroupFaults == {"none", "ConnectionError", "ResponseError"}

\* redis.xgroup_create(mkstream=True, id='0'): the reply of the server
xgroup_create(created, fault) ==
    IF fault = "ConnectionError" THEN [exc |-> "ConnectionError", text |-> "", created |-> created]
    ELSE IF fault = "ResponseError" THEN [exc |-> "ResponseError", text |-> "WRONGTYPE", created |-> created]
    ELSE IF created THEN [exc |-> "ResponseError", text |-> "BUSYGROUP", created |-> TRUE]
    ELSE [exc |-> "none", text |-> "", created |-> TRUE]

\* _ensure_consumer_group_exists re-raising every ResponseError
ensure_consumer_group_exists_strict(created, fault) ==
    LET r == xgroup_create(created, fault)
    IN  [exc |-> r.exc, created |-> r.created]

\* EventDispatcher._ensure_consumer_group_exists: a ResponseError whose text
\* holds BUSYGROUP is dropped, every other exception leaves the method
ensure_consumer_group_exists(created, fault) ==
    LET r == xgroup_create(created, fault)
    IN  IF r.exc = "ResponseError" /\ r.text = "BUSYGROUP"
        THEN [exc |-> "none", created |-> r.created]
        ELSE [exc |-> r.exc, created |-> r.created]

\* EventDispatcher.start up to the loop: the group is ensured (it delivers from
\* id 0); an exception of that leaves start() before the loop
Start ==
    /\ disp.pc = "stopped"
    /\ \E fault \in GroupFaults :
          LET r == ensure_consumer_group_exists(group.created, fault)
          IN  /\ op' = "start"
              /\ args' = [fault |-> fault, existed |-> group.created]
              /\ res' = [exc |-> r.exc, msg |-> ""]
              /\ group' = [group EXCEPT !.created = r.created]
              /\ IF r.exc = "none"
                 THEN disp' = [pc |-> "reading", cur |-> 0]
                 ELSE disp' = disp
    /\ UNCHANGED <<cart, now, ticks, calls, db, session, scope, txs, lastSave, found,
                   stream, runs, errlog, crashes, event_logs, loop>>

\* start() reaching its loop
Started == Start /\ disp'.pc = "reading"

\* XREADGROUP '>' count=1: the next never-delivered message, entered in the
\* pending entries list of the group
xreadgroup(g) ==
    [g EXCEPT !.last_delivered = @ + 1,
              !.pel = @ \cup {g.last_delivered + 1},
              !.deliveries = Append(@, g.last_delivered + 1)]

XReadGroup ==
    /\ disp.pc = "reading"
    /\ group.last_delivered < Len(stream)
    /\ group' = xreadgroup(group)
    /\ disp' = [pc |-> "handling", cur |-> group.last_delivered + 1]
    /\ UNCHANGED <<busFrame, stream, runs, errlog, crashes, event_logs>>

\* a loop without the except branch: the lost reply ends start()
XReadGroupLost_ending_loop ==
    /\ disp.pc = "reading"
    /\ group.last_delivered < Len(stream)
    /\ crashes < MaxCrashes
    /\ group' = xreadgroup(group)
    /\ crashes' = crashes + 1
    /\ disp' = [pc |-> "stopped", cur |-> 0]
    /\ UNCHANGED <<busFrame, stream, runs, errlog, event_logs>>

\* XREADGROUP served by the server, its reply lost with the connection: the loop
\* prints the error and sleeps
XReadGroupLost ==
    /\ disp.pc = "reading"
    /\ group.last_delivered < Len(stream)
    /\ crashes < MaxCrashes
    /\ group' = xreadgroup(group)
    /\ errlog' = errlog \cup {[id |-> 0, kind |-> "Error in event dispatcher loop"]}
    /\ crashes' = crashes + 1
    /\ disp' = [pc |-> "sleeping", cur |-> 0]
    /\ UNCHANGED <<busFrame, stream, runs, event_logs>>

\* `await asyncio.sleep(5)` of the except branch returns: the loop reads again
Sleep ==
    /\ disp.pc = "sleeping"
    /\ disp' = [pc |-> "reading", cur |-> 0]
    /\ UNCHANGED <<busFrame, stream, group, runs, errlog, crashes, event_logs>>

HandleMessage ==
    /\ disp.pc = "handling"
    /\ stream[disp.cur].keyed
    /\ \E outcome \in Outcomes, xack_ok \in BOOLEAN, write_ok \in BOOLEAN :
          LET h == handle_message(disp.cur, stream[disp.cur], outcome, xack_ok,
                                  event_logs, write_ok)
          IN  /\ runs' = Append(runs, h.run)
              /\ errlog' = errlog \cup h.log
              /\ event_logs' = h.event_logs
              /\ group' = IF h.ack
                          THEN [group EXCEPT !.pel = @ \ {disp.cur},
                                             !.acked = @ \cup {disp.cur}]
                          ELSE group
    /\ disp' = [pc |-> "reading", cur |-> 0]
    /\ UNCHANGED <<busFrame, stream, crashes>>

\* the loop body for a message without the field event_json:
\* fields[b'event_json'] raises KeyError before _handle_message is called; the
\* except branch of the loop prints it and sleeps
FieldMissing ==
    /\ disp.pc = "handling"
    /\ ~stream[disp.cur].keyed
    /\ errlog' = errlog \cup {[id |-> 0, kind |-> "Error in event dispatcher loop"]}
    /\ disp' = [pc |-> "sleeping", cur |-> 0]
    /\ UNCHANGED <<busFrame, stream, group, runs, crashes, event_logs>>

\* the task running start() is cancelled or its process ends (the loop has no
\* other way out): between two reads, during the sleep, or after XREADGROUP
\* returned a message whose handlers have not completed
Stop ==
    /\ disp.pc # "stopped"
    /\ crashes < MaxCrashes
    /\ disp' = [pc |-> "stopped", cur |-> 0]
    /\ crashes' = crashes + 1
    /\ UNCHANGED <<busFrame, stream, group, runs, errlog, event_logs>>

BusCartInit ==
    /\ now = 0
    /\ ticks = 0
    /\ calls = 0
    /\ cart = GolfCart(CART001, TRUE, <<0, 0>>, 1000, IDLE, Some(0))
    /\ op = "init"
    /\ args = NoArgs
    /\ res = NoExc

InitBus == BusCartInit /\ StoreInit /\ BusInit

NextBus ==
    \/ Publish
    \/ ForeignXadd
    \/ Start
    \/ XReadGroup
    \/ XReadGroupLost
    \/ Sleep
    \/ HandleMessage
    \/ FieldMissing
    \/ Stop

SpecBus == InitBus /\ [][NextBus]_vars

\* the event loop keeps running start(), and a stopped dispatcher is started
\* again
FairSpecBus ==
    /\ SpecBus
    /\ WF_vars(Started)
    /\ WF_vars(XReadGroup)
    /\ WF_vars(Sleep)
    /\ WF_vars(HandleMessage)
    /\ WF_vars(FieldMissing)

\* the loop of start() left to itself: the dispatcher task is not cancelled
NextLoop ==
    \/ Publish
    \/ ForeignXadd
    \/ Start
    \/ XReadGroup
    \/ XReadGroupLost
    \/ Sleep
    \/ HandleMessage
    \/ FieldMissing

FairSpecLoop ==
    /\ InitBus /\ [][NextLoop]_vars
    /\ WF_vars(Started)
    /\ WF_vars(XReadGroup)
    /\ WF_vars(Sleep)
    /\ WF_vars(HandleMessage)
    /\ WF_vars(FieldMissing)

---------------------------------------------------------------------------
(* _handle_message on the asyncio event loop: asyncio.gather wraps every
   handler coroutine in a task; the loop runs the callbacks of its ready queue
   one at a time, in the order they were scheduled. A task step runs the
   coroutine up to its next suspension; log_event_handler and
   notification_handler have no await, and auditing_handler awaits only
   save_event, a coroutine without an await of its own, so each of them ends in
   its first step. *)

\* a callback scheduled ahead of the callbacks already waiting
call_soon_first(ready, entry) == <<entry>> \o ready

\* loop.call_soon
call_soon(ready, entry) == Append(ready, entry)

Entry(kind, task) == [kind |-> kind, task |-> task]

\* ensure_future on the coroutines hs[k..]: the first step of each new task is
\* scheduled; n is the number of tasks before them
RECURSIVE ensure_futures(_, _, _, _)
ensure_futures(ready, hs, k, n) ==
    IF k > Len(hs) THEN ready
    ELSE ensure_futures(call_soon(ready, Entry("step", n + k)), hs, k + 1, n)

\* `tasks = [handler(event_data) ...]`, `await asyncio.gather(*tasks)` up to
\* the suspension of _handle_message on the future of gather
CreateTasks ==
    /\ disp.pc = "handling"
    /\ stream[disp.cur].keyed /\ stream[disp.cur].decodable
    /\ LET hs == Handlers(stream[disp.cur].event_json.event_name)
           n == Len(loop.tasks)
       IN  /\ Len(hs) > 0
           /\ loop' = [tasks |-> loop.tasks \o
                                   [k \in 1..Len(hs) |->
                                       [id |-> disp.cur, handler |-> hs[k],
                                        state |-> "pending", audit |-> "none"]],
                       ready |-> ensure_futures(loop.ready, hs, 1, n),
                       outer |-> [state |-> "pending", id |-> disp.cur, nfinished |-> 0,
                                  nfuts |-> Len(hs)]]
    /\ disp' = [pc |-> "gathering", cur |-> disp.cur]
    /\ UNCHANGED <<cartVars, db, session, scope, txs, lastSave, found, stream, group,
                   runs, errlog, crashes, event_logs>>

\* Task.__step of a handler task: the handler runs to its end and the done
\* callback of gather is scheduled
TaskStep ==
    /\ loop.ready # <<>>
    /\ Head(loop.ready).kind = "step"
    /\ \E outcome \in {"ok", "raised"}, write_ok \in BOOLEAN :
          LET i == Head(loop.ready).task
              t == loop.tasks[i]
              a == IF t.handler = AUDIT
                   THEN auditing_handler(t.id, event_logs, outcome = "ok", write_ok)
                   ELSE [result |-> outcome, log |-> event_logs, audit |-> "none",
                         printed |-> {}]
          IN  /\ loop' = [loop EXCEPT !.tasks[i].state = a.result,
                                      !.tasks[i].audit = a.audit,
                                      !.ready = call_soon(Tail(loop.ready), Entry("done", i))]
              /\ event_logs' = a.log
              /\ errlog' = errlog \cup a.printed
    /\ UNCHANGED <<cartVars, db, session, scope, txs, lastSave, found, stream, group,
                   disp, runs, crashes>>

\* gather's _done_callback for one task: the first exception ends the future
\* of gather at once, the last result ends it with the results; its waiter,
\* _handle_message, is scheduled to resume
DoneCallback ==
    /\ loop.ready # <<>>
    /\ Head(loop.ready).kind = "done"
    /\ LET i == Head(loop.ready).task
           t == loop.tasks[i]
           rest == Tail(loop.ready)
       IN  IF loop.outer.state # "pending" \/ loop.outer.id # t.id
           THEN loop' = [loop EXCEPT !.ready = rest]
           ELSE IF t.state = "raised"
           THEN loop' = [loop EXCEPT !.outer.state = "exception",
                                     !.ready = call_soon(rest, Entry("wake", 0))]
           ELSE IF loop.outer.nfinished + 1 = loop.outer.nfuts
           THEN loop' = [loop EXCEPT !.outer.state = "result",
                                     !.outer.nfinished = @ + 1,
                                     !.ready = call_soon(rest, Entry("wake", 0))]
           ELSE loop' = [loop EXCEPT !.outer.nfinished = @ + 1, !.ready = rest]
    /\ UNCHANGED <<cartVars, db, session, scope, txs, lastSave, found, stream, group,
                   disp, runs, errlog, crashes, event_logs>>

\* _handle_message resumes after gather: xack on a result, the printed error on
\* an exception; start goes back to xreadgroup
Resume ==
    /\ loop.ready # <<>>
    /\ Head(loop.ready).kind = "wake"
    /\ disp.pc = "gathering"
    /\ \E xack_ok \in BOOLEAN :
          LET id == disp.cur
              mine == {i \in 1..Len(loop.tasks) : loop.tasks[i].id = id}
              ack == loop.outer.state = "result" /\ xack_ok
              audits == {loop.tasks[i].audit : i \in {j \in mine : loop.tasks[j].handler = AUDIT}}
          IN  /\ runs' = Append(runs,
                    [id |-> id,
                     invoked |-> {loop.tasks[i].handler : i \in mine},
                     raised |-> {loop.tasks[i].handler :
                                    i \in {j \in mine : loop.tasks[j].state = "raised"}},
                     audit |-> IF audits = {} THEN "none" ELSE CHOOSE x \in audits : TRUE])
              /\ errlog' = IF ack THEN errlog
                           ELSE errlog \cup {[id |-> id, kind |-> "Error processing message"]}
              /\ group' = IF ack
                          THEN [group EXCEPT !.pel = @ \ {id}, !.acked = @ \cup {id}]
                          ELSE group
    /\ loop' = [loop EXCEPT !.ready = Tail(loop.ready), !.outer.state = "none"]
    /\ disp' = [pc |-> "reading", cur |-> 0]
    /\ UNCHANGED <<cartVars, db, session, scope, txs, lastSave, found, stream, crashes,
                   event_logs>>

NextGather ==
    \/ Publish
    \/ Start
    \/ XReadGroup
    \/ CreateTasks
    \/ TaskStep
    \/ DoneCallback
    \/ Resume

SpecGather == InitBus /\ [][NextGather]_vars

---------------------------------------------------------------------------
(* Properties of the aggregate, checked under Spec *)

\* A step in which the aggregate operation `name` was called
CallOf(name) == op' = name /\ calls' = calls + 1

CountOf(evs, name) == Cardinality({i \in 1..Len(evs) : evs[i].name = name})

\* C4: start_trip() succeeds if and only if the status is IDLE or CHARGING, the
\* battery level is at least 20 and maintenance is not due (maintained less than
\* 30 days ago); otherwise it raises BusinessRuleViolation, the status stays
\* unchanged and no event is appended.
C4_StartTripGuard ==
    [][CallOf("start_trip") =>
        LET allowed == /\ cart.status \in {"idle", "charging"}
                       /\ cart.battery >= 200
                       /\ cart.last_maintenance # None
                       /\ now - cart.last_maintenance[1] < 30 * 24 * 60
        IN  /\ allowed => /\ res'.exc = "none"
                          /\ cart'.status = "running"
            /\ ~allowed => /\ res'.exc = "BusinessRuleViolation"
                           /\ cart'.status = cart.status
                           /\ cart'.events = cart.events]_vars

\* C4 witness: a start_trip rejected for the battery alone (IDLE, maintained, 15%)
C4_Witness ==
    /\ op = "start_trip"
    /\ res.exc = "BusinessRuleViolation"
    /\ res.msg = "Insufficient battery"
    /\ cart.status = "idle"
    /\ cart.battery < 200
    /\ cart.last_maintenance # None

\* C9: update_position with valid coordinates and velocity is accepted in every
\* status and for every battery and maintenance condition: it never raises
\* BusinessRuleViolation and always appends exactly one PositionUpdated event.
C9_UpdatePositionAlwaysAccepted ==
    [][(/\ CallOf("update_position")
        /\ Position_valid(args'.position)
        /\ Velocity_valid(args'.velocity))
       => /\ res'.exc # "BusinessRuleViolation"
          /\ CountOf(cart'.events, "PositionUpdated")
                = CountOf(cart.events, "PositionUpdated") + 1]_vars

\* C10: stop_trip() succeeds only when the status is RUNNING; it then sets the
\* status to IDLE and the velocity to 0 and appends CartStatusChanged(RUNNING to
\* IDLE) followed by CartStopped; from any other status it raises
\* BusinessRuleViolation and changes nothing.
C10_StopTrip ==
    [][CallOf("stop_trip") =>
        LET n == Len(cart.events)
        IN  IF cart.status = "running"
            THEN /\ res'.exc = "none"
                 /\ cart'.status = "idle"
                 /\ cart'.velocity = 0
                 /\ Len(cart'.events) = n + 2
                 /\ SubSeq(cart'.events, 1, n) = cart.events
                 /\ cart'.events[n + 1].name = "CartStatusChanged"
                 /\ cart'.events[n + 1].payload = [old_status |-> "running", new_status |-> "idle"]
                 /\ cart'.events[n + 2].name = "CartStopped"
            ELSE /\ res'.exc = "BusinessRuleViolation"
                 /\ cart' = cart]_vars

\* C10 witness: a moving RUNNING cart was stopped, onto a non-empty queue
C10_Witness ==
    /\ op = "stop_trip"
    /\ res.exc = "none"
    /\ cart.status = "idle"
    /\ cart.velocity = 0
    /\ Len(cart.events) >= 3
    /\ cart.events[Len(cart.events)].name = "CartStopped"
    /\ cart.events[Len(cart.events) - 1].name = "CartStatusChanged"

---------------------------------------------------------------------------
(* Properties of save and of the transaction scopes, checked under SpecStore *)

\* C1: an event is on the stream only if the state change that raised it is
\* committed: when the scope enclosing a save has ended without committing
\* (rolled back, or its commit failed), no event published by that save is on
\* the stream.
C1_NoEventOfRolledBackSave ==
    \A i \in 1..Len(stream) :
        stream[i].tx <= Len(txs) => txs[stream[i].tx] = "committed"

\* A step in which repository.save ran
SaveStep == lastSave'.n = lastSave.n + 1

\* C5: save(cart) publishes the pending events of the cart once each and in the
\* order they were appended (all of them when it returns, a prefix of them when
\* a publish fails) and leaves the pending queue empty; in particular a second
\* save without a new mutation publishes nothing.
C5_SavePublishesPendingInOrder ==
    [][SaveStep =>
        LET n == Len(cart.events)
            k == Len(stream') - Len(stream)
        IN  /\ cart'.events = <<>>
            /\ 0 <= k /\ k <= n
            /\ SubSeq(stream', 1, Len(stream)) = stream
            /\ \A i \in 1..k :
                  /\ stream'[Len(stream) + i].event_json.event_name = cart.events[i].name
                  /\ stream'[Len(stream) + i].event_json.payload = get_payload(cart.events[i])
            /\ res'.exc = "none" => k = n]_vars

\* C5 witness: a save returned after publishing two or more pending events
C5_Witness ==
    /\ op = "save"
    /\ res.exc = "none"
    /\ lastSave.pending >= 2
    /\ lastSave.published = lastSave.pending
    /\ Len(stream) >= 2
    /\ cart.events = <<>>

\* C6: leaving a Unit of Work scope normally commits the changes made in it: a
\* cart saved in a scope whose body raises nothing of its own, and in which
\* neither a publish nor the commit fails, is found once the scope is left.
C6_UowSavedCartIsFound ==
    (/\ scope.kind = "uow"
     /\ scope.pc = "closed"
     /\ scope.save_called
     /\ scope.exc \notin {"Exception", "ConnectionError", "CommitError"})
    => db[TheCart] # NoRow

---------------------------------------------------------------------------
(* Properties of the dispatcher, checked under SpecBus and FairSpecBus *)

IsEvent(m) == m.decodable /\ m.event_json.event_name \in all_events

\* message i was passed to every handler registered for its event name
Passed(i) ==
    /\ i <= Len(stream)
    /\ \E r \in 1..Len(runs) :
          /\ runs[r].id = i
          /\ runs[r].invoked = Range(Handlers(stream[i].event_json.event_name))

DeliveryCount(i) ==
    Cardinality({d \in 1..Len(group.deliveries) : group.deliveries[d] = i})

\* C2: at-least-once delivery: an event published to the stream is eventually
\* passed to every handler registered for its event name.
C2_AtLeastOnceDelivery ==
    \A i \in 1..MaxStream :
        (i <= Len(stream) /\ IsEvent(stream[i])) ~> Passed(i)

\* C3: a message delivered to the dispatcher and left unacknowledged (a handler
\* raised, the body was not decodable, the dispatcher stopped) is eventually
\* delivered again.
C3_UnackedIsRedelivered ==
    \A i \in 1..MaxStream :
        (i \in group.pel /\ disp.cur # i) ~> (DeliveryCount(i) >= 2)

\* C7: a message is acknowledged only after every handler registered for its
\* event name has completed without raising; a message for which a handler
\* raised is not acknowledged.
C7_AckOnlyAfterAllHandlersOk ==
    /\ \A i \in group.acked :
          \E r \in 1..Len(runs) :
              /\ runs[r].id = i
              /\ stream[i].decodable
              /\ runs[r].invoked = Range(Handlers(stream[i].event_json.event_name))
              /\ runs[r].raised = {}
    /\ \A r \in 1..Len(runs) :
          runs[r].raised # {} => runs[r].id \notin group.acked /\ runs[r].id \in group.pel

\* C7 witness: one message acknowledged after its three handlers returned, and
\* another left pending because a handler raised
C7_Witness ==
    /\ \E i \in group.acked : Len(Handlers(stream[i].event_json.event_name)) = 3
    /\ \E r \in 1..Len(runs) : runs[r].raised # {} /\ runs[r].id \in group.pel

\* A step in which _handle_message ran
HandledStep == Len(runs') = Len(runs) + 1

\* what holds of a run in which exactly one handler raised: the error is
\* printed, the other registered handlers ran to completion
OneRaisedOthersRan(r) ==
    /\ [id |-> r.id, kind |-> "Error processing message"] \in errlog'
    /\ r.invoked = Range(Handlers(stream[r.id].event_json.event_name))
    /\ disp'.pc = "reading"

\* C8 as stated: when one handler raises, the error is logged, the other
\* handlers still run to completion, and the message is still acknowledged.
C8_RaisedStillAcked ==
    [][HandledStep =>
        LET r == runs'[Len(runs')]
        IN  Cardinality(r.raised) = 1 =>
               OneRaisedOthersRan(r) /\ r.id \in group'.acked]_vars

\* C8 amended: when one handler raises, the error is logged, the other handlers
\* still run to completion, the message is not acknowledged and stays pending,
\* and the loop goes on to the next read.
C8_RaisedLoggedNotAcked ==
    [][HandledStep =>
        LET r == runs'[Len(runs')]
        IN  Cardinality(r.raised) = 1 =>
               /\ OneRaisedOthersRan(r)
               /\ r.id \notin group'.acked
               /\ r.id \in group'.pel]_vars

\* C8 witness: the first of three handlers raised, the two others ran, the error
\* was printed, and the dispatcher is reading again
C8_Witness ==
    /\ Len(runs) >= 1
    /\ LET r == runs[Len(runs)]
       IN  /\ r.raised = {LOG}
           /\ r.invoked = {LOG, NOTIFY, AUDIT}
           /\ [id |-> r.id, kind |-> "Error processing message"] \in errlog
           /\ r.id \in group.pel
    /\ disp.pc = "reading"

---------------------------------------------------------------------------
(* Further properties of the aggregate, checked under Spec *)

\* the events appended by the step
Appended == SubSeq(cart'.events, Len(cart.events) + 1, Len(cart'.events))

\* a step calling update_position with valid coordinates and velocity
ValidUpdate ==
    /\ CallOf("update_position")
    /\ -90 <= args'.position[1] /\ args'.position[1] <= 90
    /\ -180 <= args'.position[2] /\ args'.position[2] <= 180
    /\ 0 <= args'.velocity /\ args'.velocity <= 300

\* the cart may start a trip as far as battery and maintenance go
TripAllowed ==
    /\ cart.battery >= 200
    /\ cart.last_maintenance # None
    /\ now - cart.last_maintenance[1] < 30 * 24 * 60

\* C11: for a RUNNING cart whose trip started at T, stop_trip() at T+d appends
\* a CartStopped whose serialized payload carries trip_duration_seconds = d
\* (in seconds), for every d >= 0.
C11_StoppedCarriesDuration ==
    [][(CallOf("stop_trip") /\ cart.status = "running" /\ cart.trip_started_at # None) =>
        LET e == cart'.events[Len(cart'.events)]
            p == get_payload(e)
        IN  /\ e.name = "CartStopped"
            /\ "trip_duration_seconds" \in DOMAIN p
            /\ p.trip_duration_seconds = (now - cart.trip_started_at[1]) * 60]_vars

\* C12: update_position with velocity > 0 on an IDLE cart that may start a
\* trip moves the cart to RUNNING and appends CartStatusChanged(IDLE, RUNNING),
\* then CartStarted, then PositionUpdated, in that order; the only event that
\* can come between them is the battery warning of the same update, just
\* before PositionUpdated.
C12_AutoStartOrder ==
    [][(ValidUpdate /\ args'.velocity > 0 /\ cart.status = "idle" /\ TripAllowed) =>
        LET a == Appended
            n == Len(a)
        IN  /\ res'.exc = "none"
            /\ cart'.status = "running"
            /\ n \in {3, 4}
            /\ a[1].name = "CartStatusChanged"
            /\ a[1].payload.old_status = "idle"
            /\ a[1].payload.new_status = "running"
            /\ a[2].name = "CartStarted"
            /\ a[n].name = "PositionUpdated"
            /\ n = 4 => a[3].name \in {"BatteryLow", "BatteryCritical"}]_vars

\* C12 witness: an update with velocity > 0 has just started the trip of an
\* idle cart, and the queue ends with the three events in order
C12_Witness ==
    /\ op = "update_position"
    /\ res.exc = "none"
    /\ args.velocity > 0
    /\ cart.status = "running"
    /\ cart.trip_started_at = Some(now)
    /\ Len(cart.events) >= 3
    /\ LET n == Len(cart.events)
       IN  /\ cart.events[n - 2].name = "CartStatusChanged"
           /\ cart.events[n - 2].payload.old_status = "idle"
           /\ cart.events[n - 1].name = "CartStarted"
           /\ cart.events[n].name = "PositionUpdated"

---------------------------------------------------------------------------
(* The clamping law of the Battery value object, checked under SpecBattery *)

\* C13: Battery.consume(y) and Battery.charge(y) return a battery whose level
\* is within [0, 100] for every amount y, negative and very large amounts
\* included.
C13_ConsumeChargeClamp ==
    [][(CallOf("Battery.consume") \/ CallOf("Battery.charge")) =>
        /\ res'.exc = "none"
        /\ 0 <= cart'.battery /\ cart'.battery <= 1000]_vars

---------------------------------------------------------------------------
(* Battery consumption, checked under Spec *)

\* C14: update_position with velocity v > 0 reduces the battery by
\* 10 x (hours since the previous position update) x v / 20, floored at 0 and
\* rounded to one decimal; the level never goes below 0.  With the level in
\* tenths, the time in minutes and v in tenths, the reduction is
\* minutes x v / 120 tenths.
C14_BatteryConsumption ==
    [][(ValidUpdate /\ args'.velocity > 0 /\ res'.exc = "none"
          /\ cart.last_position_update # None) =>
        LET minutes == now - cart.last_position_update[1]
            exact120 == cart.battery * 120 - minutes * args'.velocity
        IN  /\ cart'.battery >= 0
            /\ IF exact120 <= 0
               THEN cart'.battery = 0
               ELSE 2 * (cart'.battery * 120 - exact120) \in -120..120]_vars

\* C14 witness: a cart at 25 % updated with 20 km/h one hour after its previous
\* update is at 15 %, and BatteryLow(15) was raised on the way
C14_Witness ==
    /\ op = "update_position"
    /\ res.exc = "none"
    /\ args.velocity = 200
    /\ now = 60
    /\ cart.battery = 150
    /\ cart.last_position_update = Some(60)
    /\ \E i \in 1..Len(cart.events) :
          /\ cart.events[i].name = "BatteryLow"
          /\ cart.events[i].payload.battery_level = 150

---------------------------------------------------------------------------
(* Charging, checked under Spec *)

\* C15: charge_battery(amount) fails with BusinessRuleViolation whenever the
\* cart is RUNNING or amount <= 0, and then neither the battery level nor the
\* status changes and no event is appended.
C15_ChargeRejected ==
    [][(CallOf("charge_battery") /\ (cart.status = "running" \/ args'.amount <= 0)) =>
        /\ res'.exc = "BusinessRuleViolation"
        /\ cart'.battery = cart.battery
        /\ cart'.status = cart.status
        /\ cart'.events = cart.events]_vars

\* the events appended by the step are CartStatusChanged events that report,
\* one after the other, the status changes leading from the status before
\* the step to the status after it
StatusChangesReported ==
    LET a == Appended
    IN  /\ \A i \in 1..Len(a) :
              /\ a[i].name = "CartStatusChanged"
              /\ a[i].payload.old_status # a[i].payload.new_status
              /\ a[i].payload.old_status =
                    IF i = 1 THEN cart.status ELSE a[i - 1].payload.new_status
        /\ cart'.status = IF Len(a) = 0 THEN cart.status ELSE a[Len(a)].payload.new_status

\* C16: a successful charge_battery raises the battery level (capped at 100)
\* and leaves the cart in CHARGING, except when the call took the level from
\* below 20 to at least 20, in which case the cart ends in IDLE; every status
\* change of the call is reported by a CartStatusChanged with the actual old
\* and new status.
C16_ChargeEffect ==
    [][(CallOf("charge_battery") /\ res'.exc = "none") =>
        /\ cart'.battery > cart.battery \/ cart'.battery = 1000
        /\ cart'.battery = IF cart.battery + args'.amount >= 1000
                           THEN 1000 ELSE cart.battery + args'.amount
        /\ cart'.status = IF cart.battery < 200 /\ cart'.battery >= 200
                          THEN "idle" ELSE "charging"
        /\ StatusChangesReported]_vars

---------------------------------------------------------------------------
(* Maintenance, decommissioning and the idle timeout, checked under Spec *)

IsStatusChange(e, old, new) ==
    /\ e.name = "CartStatusChanged"
    /\ e.payload.old_status = old
    /\ e.payload.new_status = new

\* C17: start_maintenance() is accepted in every status and ends in FIXING; on
\* a RUNNING cart the trip is stopped first, so the events appended are
\* CartStatusChanged(RUNNING, IDLE), CartStopped, CartStatusChanged(IDLE,
\* FIXING), MaintenanceRequired, in that order.
C17_StartMaintenance ==
    [][CallOf("start_maintenance") =>
        LET a == Appended
        IN  /\ res'.exc = "none"
            /\ cart'.status = "fixing"
            /\ cart.status = "running" =>
                  /\ Len(a) = 4
                  /\ IsStatusChange(a[1], "running", "idle")
                  /\ a[2].name = "CartStopped"
                  /\ IsStatusChange(a[3], "idle", "fixing")
                  /\ a[4].name = "MaintenanceRequired"
            /\ cart.status \notin {"running", "fixing"} =>
                  /\ Len(a) = 2
                  /\ IsStatusChange(a[1], cart.status, "fixing")
                  /\ a[2].name = "MaintenanceRequired"
            /\ cart.status = "fixing" =>
                  Len(a) = 1 /\ a[1].name = "MaintenanceRequired"]_vars

\* C17 witness: start_maintenance has just been called on a running cart
C17_Witness ==
    /\ op = "start_maintenance"
    /\ res.exc = "none"
    /\ cart.status = "fixing"
    /\ cart.velocity = 0
    /\ Len(cart.events) >= 4
    /\ LET n == Len(cart.events)
       IN  /\ IsStatusChange(cart.events[n - 3], "running", "idle")
           /\ cart.events[n - 2].name = "CartStopped"
           /\ IsStatusChange(cart.events[n - 1], "idle", "fixing")
           /\ cart.events[n].name = "MaintenanceRequired"

\* C18: complete_maintenance() succeeds only when the status is FIXING and then
\* sets the status to IDLE, the battery to 100 and last_maintenance to the
\* current time; from any other status it raises BusinessRuleViolation and
\* changes nothing.
C18_CompleteMaintenance ==
    [][CallOf("complete_maintenance") =>
        IF cart.status = "fixing"
        THEN /\ res'.exc = "none"
             /\ cart'.status = "idle"
             /\ cart'.battery = 1000
             /\ cart'.last_maintenance = <<now>>
        ELSE /\ res'.exc = "BusinessRuleViolation"
             /\ cart' = cart]_vars

\* C18 witness: maintenance was completed some time after the start of the
\* behaviour, and the cart is idle with a full battery
C18_Witness ==
    /\ op = "complete_maintenance"
    /\ res.exc = "none"
    /\ cart.status = "idle"
    /\ cart.battery = 1000
    /\ now > 0
    /\ cart.last_maintenance = <<now>>
    /\ Len(cart.events) >= 1
    /\ IsStatusChange(cart.events[Len(cart.events)], "fixing", "idle")

\* C19: decommission() is accepted in every status and ends in OUT_OF_SERVICE,
\* and once a cart is OUT_OF_SERVICE no later operation changes its status.
C19_DecommissionPermanent ==
    [][/\ CallOf("decommission") => res'.exc = "none" /\ cart'.status = "out_of_service"
       /\ cart.status = "out_of_service" => cart'.status = "out_of_service"]_vars

\* C20: update_position with velocity 0 on a RUNNING cart ends the trip (status
\* IDLE, CartStopped appended) exactly when more than 30 minutes have passed
\* since the previous position update; with 30 minutes or less, or with no
\* previous update, the cart stays RUNNING.
C20_IdleTimeout ==
    [][(ValidUpdate /\ args'.velocity = 0 /\ cart.status = "running") =>
        LET a == Appended
            stopped == \E i \in 1..Len(a) : a[i].name = "CartStopped"
            timed_out == /\ cart.last_position_update # None
                         /\ now - cart.last_position_update[1] > 30
        IN  /\ res'.exc = "none"
            /\ timed_out => cart'.status = "idle" /\ stopped
            /\ ~timed_out => cart'.status = "running" /\ ~stopped]_vars

\* C20 witness: a stopped-velocity update 31 minutes after the previous update
\* has ended the trip
C20_Witness ==
    /\ op = "update_position"
    /\ res.exc = "none"
    /\ args.velocity = 0
    /\ now = 31
    /\ cart.status = "idle"
    /\ Len(cart.events) >= 3
    /\ LET n == Len(cart.events)
       IN  /\ IsStatusChange(cart.events[n - 2], "running", "idle")
           /\ cart.events[n - 1].name = "CartStopped"
           /\ cart.events[n].name = "PositionUpdated"

\* C21: battery consumption in update_position that takes the level from at
\* least 20 to below 20 appends BatteryLow, consumption that takes it from at
\* least 10 to below 10 appends BatteryCritical, and an update that crosses
\* neither threshold downward appends neither event.
C21_ThresholdEvents ==
    [][(ValidUpdate /\ res'.exc = "none") =>
        LET a == Appended
            low == \E i \in 1..Len(a) : a[i].name = "BatteryLow"
            critical == \E i \in 1..Len(a) : a[i].name = "BatteryCritical"
            crossed_low == cart.battery >= 200 /\ cart'.battery < 200
            crossed_critical == cart.battery >= 100 /\ cart'.battery < 100
        IN  /\ crossed_low => low
            /\ crossed_critical => critical
            /\ ~crossed_low => ~low
            /\ ~crossed_critical => ~critical]_vars

---------------------------------------------------------------------------
(* Properties of the command handlers and the application service, checked
   under SpecApp *)

\* a step that runs the named command
CommandOf(name) == op' = name /\ calls' = calls + 1

ServiceCommands ==
    {"service.register_cart", "service.update_cart_position",
     "service.start_trip", "service.stop_trip"}

IdCommands ==
    {"service.update_cart_position", "service.start_trip", "service.stop_trip",
     "handle_start_maintenance", "handle_complete_maintenance", "handle_charge_battery"}

\* C22: a domain error (InvalidValueException, BusinessRuleViolation,
\* EntityNotFound) raised while a command of the application service is handled
\* reaches the caller as that same error, for register, update position, start
\* trip and stop trip; only other (infrastructure) failures come out wrapped.
C22_DomainErrorsUnchanged ==
    [][(\E name \in ServiceCommands : CommandOf(name)) =>
        /\ res'.inner.exc \in {"InvalidValueException", "BusinessRuleViolation", "EntityNotFound"}
              => res'.exc = res'.inner.exc /\ res'.msg = res'.inner.msg
        /\ res'.exc = "Exception" => res'.inner.exc = "OperationalError"]_vars

\* C23: a handler that takes a cart id, run with an id under which no cart is
\* stored (the database being reachable), fails with EntityNotFound, stores
\* nothing and publishes no event.
C23_MissingCartNotFound ==
    [][((\E name \in IdCommands : CommandOf(name))
            /\ db[args'.id] = <<>>
            /\ res'.inner.exc # "OperationalError") =>
        /\ res'.exc = "EntityNotFound"
        /\ db' = db
        /\ stream' = stream]_vars

\* C23 witness: charging a cart that is not stored was answered with
\* EntityNotFound (before the amount was looked at), nothing being stored
C23_Witness ==
    /\ op = "handle_charge_battery"
    /\ args.amount = 0
    /\ db[args.id] = <<>>
    /\ res.exc = "EntityNotFound"

\* raw, without its blanks and with its letters in upper case, is n
FoldsTo(raw, n) ==
    LET inked == SelectSeq(raw, LAMBDA ch : ch # " ")
    IN  /\ Len(inked) = Len(n)
        /\ \A i \in 1..Len(n) :
              \/ inked[i] = n[i] /\ ~\E k \in 1..26 : LowerLetters[k] = n[i]
              \/ \E k \in 1..26 : LowerLetters[k] = inked[i] /\ UpperLetters[k] = n[i]

StoredNumbers(d) == {d[i][1].cart_number : i \in {j \in DOMAIN d : d[j] # <<>>}}

\* C24: an accepted register command stores the cart under the upper-case form
\* of the number given; a register command whose number equals a stored number
\* in any letter case fails with BusinessRuleViolation and leaves the store as
\* it was; no two stored carts ever share a cart number.
C24_UniqueNormalizedNumber ==
    /\ [][CommandOf("service.register_cart") =>
            /\ res'.exc = "none" =>
                  /\ db'[args'.id] # <<>>
                  /\ FoldsTo(args'.cart_number, db'[args'.id][1].cart_number)
                  /\ \A i \in DOMAIN db : i # args'.id => db'[i] = db[i]
            /\ ((\E n \in StoredNumbers(db) : FoldsTo(args'.cart_number, n))
                    /\ res'.inner.exc # "OperationalError") =>
                  /\ res'.exc = "BusinessRuleViolation"
                  /\ db' = db]_vars
    /\ [](\A i, j \in DOMAIN db :
              (i # j /\ db[i] # <<>> /\ db[j] # <<>>)
                  => db[i][1].cart_number # db[j][1].cart_number)

\* C24 witness: with GC1 stored, " Gc1" was refused as a duplicate
C24_Witness ==
    /\ op = "service.register_cart"
    /\ args.cart_number = <<" ", "G", "c", "1">>
    /\ res.exc = "BusinessRuleViolation"
    /\ \E i \in DOMAIN db : db[i] # <<>> /\ db[i][1].cart_number = <<"G", "C", "1">>

\* C25: a cart saved by a command and then loaded by its id has the cart
\* number, position, battery level and status it was saved with, whatever its
\* status and for every battery level from 0 to 100.
C25_SaveLoadRoundTrip ==
    [][(CommandOf("get_by_id")
            /\ op \in IdCommands \cup {"service.register_cart"}
            /\ res.exc = "none"
            /\ args'.id = args.id) =>
        /\ found' # <<>>
        /\ found'[1].cart_number = cart.cart_number
        /\ found'[1].position = cart.position
        /\ found'[1].battery = cart.battery
        /\ found'[1].status = cart.status]_vars

---------------------------------------------------------------------------
(* Further properties of the transaction scopes, checked under SpecStore *)

\* C26: however a Unit of Work scope is left (normally, through an exception
\* of the body, through a failing commit or rollback), its session has been
\* closed and the Unit of Work no longer holds it.
C26_UowSessionReleased ==
    (scope.kind = "uow" /\ scope.pc = "closed")
        => (scope.closed /\ ~scope.uow_session)

---------------------------------------------------------------------------
(* The audit log and the dispatcher loop, checked under SpecBus and
   FairSpecBus *)

\* number of event_logs rows with the given event id
Records(i) == Cardinality({k \in 1..Len(event_logs) : event_logs[k] = i})

\* C27: for every acknowledged event the event_logs table holds exactly one
\* row with its event id: never none, never two.
C27_OneRecordPerAckedEvent ==
    \A i \in group.acked : IsEvent(stream[i]) => Records(i) = 1

\* the run of the step found the audit write failing
AuditFailedStep == HandledStep /\ runs'[Len(runs')].audit = "failed"

\* C28: a failing write of the auditing handler is rolled back and contained:
\* the table is as before, the error is printed, every handler registered for
\* the event has run, the auditing handler has not raised (so the message is
\* acknowledged when no other handler raised and XACK succeeded), and the
\* dispatcher goes on to read the next message.
C28_AuditFailureContained ==
    [][AuditFailedStep =>
        LET r == runs'[Len(runs')]
        IN  /\ event_logs' = event_logs
            /\ [id |-> r.id, kind |-> "Error saving event to audit log"] \in errlog'
            /\ r.invoked = Range(Handlers(stream[r.id].event_json.event_name))
            /\ "auditing_handler" \notin r.raised
            /\ (r.raised = {} /\ r.id \notin group'.acked)
                  => [id |-> r.id, kind |-> "Error processing message"] \in errlog'
            /\ disp'.pc = "reading"]_vars

\* C28 witness: the audit write failed for the first message, and the second
\* message has been dispatched to its handlers and audited
C28_Witness ==
    /\ Len(runs) = 2
    /\ runs[1].audit = "failed"
    /\ runs[1].id = 1
    /\ runs[2].id = 2
    /\ runs[2].audit = "written"
    /\ event_logs = <<2>>

\* the loop met an exception: the reply of a read that the server served did
\* not arrive, or the message read has no field event_json
LoopErrorStep ==
    \/ group'.last_delivered = group.last_delivered + 1 /\ disp'.cur = 0
    \/ /\ disp.pc = "handling"
       /\ ~stream[disp.cur].keyed
       /\ crashes' = crashes
       /\ disp' # disp

C30_GracefulShutdown ==
    [][(disp.pc # "stopped" /\ disp'.pc = "stopped") => disp.pc # "handling"]_vars

\* a step of start() up to its loop
StartStep == disp.pc = "stopped" /\ op' = "start" /\ crashes' = crashes /\ stream' = stream

\* C31: ensuring the consumer group is idempotent: when nothing else goes wrong
\* the call raises nothing and the group exists afterwards, and when it existed
\* already it is left as it was; any other error of the creation reaches the
\* caller (start() ends with it).
C31_EnsureGroupIdempotent ==
    [][StartStep =>
        /\ args'.fault = "none" =>
              /\ res'.exc = "none"
              /\ group'.created
              /\ group.created => group' = group
              /\ disp'.pc = "reading"
        /\ args'.fault # "none" =>
              /\ res'.exc = args'.fault
              /\ group' = group
              /\ disp'.pc = "stopped"]_vars

\* C31 witness: start() ran a second time, the group being there already, and
\* raised nothing
C31_Witness ==
    /\ op = "start"
    /\ args.existed
    /\ res.exc = "none"
    /\ group.created
    /\ disp.pc = "reading"

---------------------------------------------------------------------------
(* The event queue, checked under SpecPull *)

\* C32: pull_events() returns the pending events in the order they were raised
\* and empties the queue, touching nothing else; a pull_events() that directly
\* follows another returns the empty list.
C32_PullEventsDrains ==
    [][CallOf("pull_events") =>
        /\ res'.events = cart.events
        /\ cart' = [cart EXCEPT !.events = <<>>]
        /\ op = "pull_events" => res'.events = <<>>]_vars

\* C32 witness: a pull_events that returned nothing, directly after one that
\* was called with events pending (CartRegistered and those of a trip start)
C32_Witness ==
    /\ op = "pull_events"
    /\ res.events = <<>>
    /\ calls = 3
    /\ cart.status = "running"
    /\ cart.trip_started_at # <<>>

---------------------------------------------------------------------------
(* Further properties of the commands, checked under SpecApp *)

\* the messages the step added to the stream
Published == SubSeq(stream', Len(stream) + 1, Len(stream'))

IsRegistered(m) == m.event_json.event_name = "CartRegistered"

\* C33: registering a new cart publishes exactly one CartRegistered event (the
\* new entity has it pending, and it carries the cart's number); a command
\* that loads a stored cart and saves it publishes none; so the stream never
\* holds two CartRegistered events for one cart.
C33_RegisteredOnce ==
    /\ [][(CommandOf("service.register_cart") /\ res'.exc = "none") =>
            /\ Len(Published) = 1
            /\ IsRegistered(Published[1])
            /\ Published[1].event_json.payload.cart_number = db'[args'.id][1].cart_number]_vars
    /\ [][(\E name \in IdCommands : CommandOf(name)) =>
            \A i \in 1..Len(Published) : ~IsRegistered(Published[i])]_vars
    /\ [](\A i, j \in 1..Len(stream) :
              (/\ IsRegistered(stream[i]) /\ IsRegistered(stream[j])
               /\ stream[i].event_json.payload.cart_number
                     = stream[j].event_json.payload.cart_number) => i = j)

\* C33 witness: a cart was registered, then loaded and saved by a maintenance
\* command that published its own events, one CartRegistered being on the stream
C33_Witness ==
    /\ op = "handle_start_maintenance"
    /\ res.exc = "none"
    /\ Len(stream) >= 2
    /\ IsRegistered(stream[1])
    /\ db[args.id] # <<>>
    /\ db[args.id][1].cart_number = stream[1].event_json.payload.cart_number
    /\ \A i \in 2..Len(stream) : ~IsRegistered(stream[i])

\* the stored carts that were never maintained
NeverMaintained(d) == {i \in DOMAIN d : d[i] # <<>> /\ d[i][1].last_maintenance = <<>>}

\* C34: a cart that was never maintained needs maintenance: a start trip
\* command on it fails with BusinessRuleViolation and changes nothing, it
\* accepts no reservation, and it is never RUNNING (complete_maintenance is what
\* sets last_maintenance).
C34_NeverMaintainedNeverRuns ==
    /\ [][(CommandOf("service.start_trip")
              /\ args'.id \in NeverMaintained(db)
              /\ res'.inner.exc # "OperationalError") =>
            /\ res'.exc = "BusinessRuleViolation"
            /\ db' = db
            /\ stream' = stream]_vars
    /\ [](\A i \in NeverMaintained(db) :
              /\ ~can_accept_reservation(to_domain(db[i][1]), now)
              /\ db[i][1].status # "running")

\* the CartStarted and CartStopped messages of the stream, in order
TripMessages ==
    SelectSeq(stream, LAMBDA m : m.event_json.event_name \in {"CartStarted", "CartStopped"})

\* C35: two commands on one cart handled concurrently act as in some serial
\* order: two start trip commands on the same cart do not both succeed, and the
\* stream holds no two CartStarted events of one cart in a row.
C35_ConcurrentCommandsSerial ==
    /\ [](~(/\ \A w \in Requests : /\ session[w].pc = "done"
                                   /\ session[w].command = "start_trip"
                                   /\ session[w].exc = "none"
            /\ session[1].id = session[2].id))
    /\ [](\A i \in 1..(Len(TripMessages) - 1) :
              ~(/\ TripMessages[i].event_json.event_name = "CartStarted"
                /\ TripMessages[i + 1].event_json.event_name = "CartStarted"))

\* the operation a command of the reload comparison names, on the cart c
MemoryCall(name, a, c, t) ==
    IF name = "handle_start_trip" THEN start_trip(c, t)
    ELSE IF name = "handle_stop_trip" THEN stop_trip(c, t)
    ELSE update_position(c, a.position, a.velocity, t)

\* C36: a command on the stored cart behaves as the same operation on the cart
\* kept in memory: the same outcome, the same events on the stream (so a stop
\* after a start reports the elapsed duration), the same stored battery,
\* status and position (so a later position update consumes battery and applies
\* the idle timeout).
C36_CommandsAsInMemory ==
    [][(\E name \in {"handle_start_trip", "handle_stop_trip", "handle_update_position"} :
            CommandOf(name)) =>
          LET r == MemoryCall(op', args', cart, now)
          IN  /\ res'.exc = r.exc
              /\ r.exc = "none" =>
                    /\ [i \in 1..Len(Published) |-> Published[i].event_json]
                          = [i \in 1..Len(r.cart.events) |-> to_dict(r.cart.events[i])]
                    /\ db'[TheCart][1] = to_model(r.cart)]_vars

\* C37: an operation of the cart that raises BusinessRuleViolation or
\* InvalidValueException leaves the cart as it was: position, velocity,
\* battery, status, trip start and pending events.
C37_RejectedCallChangesNothing ==
    [][(calls' = calls + 1 /\ res'.exc \in {"BusinessRuleViolation", "InvalidValueException"}) =>
          /\ cart'.position = cart.position
          /\ cart'.velocity = cart.velocity
          /\ cart'.battery = cart.battery
          /\ cart'.status = cart.status
          /\ cart'.trip_started_at = cart.trip_started_at
          /\ cart'.events = cart.events]_vars

\* a handler task has started once its first step has run, and the handlers
\* registered here end in that step
TaskStarted(t) == t.state # "pending"

C39_ReservationIffStartable ==
    [][CallOf("start_trip") =>
          (can_accept_reservation(cart, now) <=> res'.exc = "none")]_vars

\* start_trip was rejected for a cart in a startable status with enough
\* battery whose maintenance is overdue, and the cart accepts no reservation
C39_Witness ==
    /\ op = "start_trip"
    /\ res.exc = "BusinessRuleViolation"
    /\ cart.status \in {"idle", "charging"}
    /\ cart.battery >= 200
    /\ cart.last_maintenance # <<>>
    /\ ~can_accept_reservation(cart, now)

====
